---- MODULE Spec2Model ----
(***************************************************************************)
(* Rox: the tree-walking interpreter of inblossoms/rox.                    *)
(*                                                                         *)
(* The model follows the pipeline of src/main.rs: a source is parsed       *)
(* (ExprIds are handed out, the loop and function counters are checked),   *)
(* resolved (scope depths are written into the interpreter's side table)   *)
(* and interpreted.  execute / evaluate / execute_block / import_module    *)
(* are recursive operators over an explicit interpreter record, written    *)
(* arm by arm after src/evaluate/interpreter.rs.  Rc<RefCell<..>> objects  *)
(* live in two heaps (envs, objs) and are named by their index, so that    *)
(* reference identity is index equality.                                   *)
(*                                                                         *)
(* The driver is the state machine: `rox <script>` (RunFile) or the REPL   *)
(* (ReplEntry), which feeds one source at a time to the same interpreter.  *)
(***************************************************************************)
EXTENDS Integers, Sequences, FiniteSets, TLC

VARIABLES
    envs,          \* heap of Environment objects (Rc<RefCell<Environment>>)
    objs,          \* heap of classes, instances and modules (Rc<RefCell<..>>)
    environment,   \* Interpreter.environment: index into envs
    globals,       \* Interpreter.globals: index into envs
    locals,        \* Interpreter.locals: the resolver side table ExprId -> depth
    modules,       \* Interpreter.modules: the loader cache, path -> module value
    path_stack,    \* Interpreter.path_stack
    exports_stack, \* Interpreter.exports_stack
    out,           \* what `print` wrote to stdout
    trace,         \* observation log of the evaluator (history variable)
    mode,          \* driver: "start", "repl", "exit", "aborted" or "hung"
    entries,       \* driver: the sources fed so far
    last,          \* driver: outcome of the last source
    scanner,       \* the Scanner struct of a scan_tokens run
    scan_pc        \* the loop of the scanner that run is in

vars == <<envs, objs, environment, globals, locals, modules, path_stack,
          exports_stack, out, trace, mode, entries, last, scanner, scan_pc>>

(***************************************************************************)
(* Bounds of the model.                                                    *)
(***************************************************************************)
\* number of sources one REPL session feeds to the interpreter
MaxEntries == 2

\* iterations of `while` and `for` loops one run may make; a run that asks
\* for more is a loop that does not end
MaxIterations == 6

EmptyMap == [x \in {} |-> x]

Put(f, k, v) == (k :> v) @@ f

Has(f, k) == k \in DOMAIN f

Last(s) == s[Len(s)]

Front(s) == SubSeq(s, 1, Len(s) - 1)

(***************************************************************************)
(* Values (src/evaluate/value.rs).  Reference values carry a heap index.   *)
(***************************************************************************)
Nil == [t |-> "Nil"]

\* Value::Number holds an f64.  A number is modelled as the fraction n / d
\* in lowest terms with d > 0, exact for the values the programs compute;
\* d = 1 is a whole number.
RECURSIVE Gcd(_, _)
Gcd(a, b) == IF b = 0 THEN a ELSE Gcd(b, a % b)

Abs(x) == IF x < 0 THEN -x ELSE x

Ratio(n, d) ==
    LET g == Gcd(Abs(n), Abs(d))
        s == IF d < 0 THEN -1 ELSE 1
    IN  [t |-> "Number", n |-> (s * n) \div g, d |-> (s * d) \div g]

Number(n) == [t |-> "Number", n |-> n, d |-> 1]

\* f64::fract() != 0.0
fract_nonzero(v) == v.d # 1

\* `n as usize` of a whole number: the cast saturates, so a negative
\* number becomes 0
as_usize(v) == IF v.n < 0 THEN 0 ELSE v.n \div v.d

String(s) == [t |-> "String", s |-> s]

Boolean(b) == [t |-> "Boolean", b |-> b]

Function(name, args, body, closure) ==
    [t |-> "Function", name |-> name, args |-> args, body |-> body,
     closure |-> closure]

NativeFunction(name, arity) ==
    [t |-> "NativeFunction", name |-> name, arity |-> arity]

NativeModule(name) == [t |-> "Dict", native |-> name]

ClassRef(r) == [t |-> "Class", ref |-> r]

InstanceRef(r) == [t |-> "Instance", ref |-> r]

\* Value::List(Rc<RefCell<Vec<Value>>>): a reference to a shared vector
ListRef(r) == [t |-> "List", ref |-> r]

RoxList(elements) == [o |-> "list", elements |-> elements]

ModuleRef(r) == [t |-> "Module", ref |-> r]

RoxClass(name, methods, superclass) ==
    [o |-> "class", name |-> name, methods |-> methods,
     superclass |-> superclass]

RoxInstance(class) == [o |-> "instance", class |-> class, fields |-> EmptyMap]

RoxModule(name) ==
    [o |-> "module", name |-> name, exports |-> EmptyMap,
     is_initialized |-> FALSE]

is_truthy(v) ==
    CASE v.t = "Nil" -> FALSE
      [] v.t = "Boolean" -> v.b
      [] v.t = "String" -> v.s # ""
      [] v.t = "Number" -> v.n # 0
      [] OTHER -> TRUE

(***************************************************************************)
(* Environment (src/evaluate/environment.rs).  enclosing = 0 is None.      *)
(***************************************************************************)
Environment_new == [values |-> EmptyMap, enclosing |-> 0]

with_enclosing(enclosing) == [values |-> EmptyMap, enclosing |-> enclosing]

define(es, e, name, value) ==
    [es EXCEPT ![e].values = Put(@, name, value)]

RECURSIVE get(_, _, _)
get(es, e, name) ==
    IF Has(es[e].values, name) THEN [r |-> "hit", val |-> es[e].values[name]]
    ELSE IF es[e].enclosing # 0 THEN get(es, es[e].enclosing, name)
    ELSE [r |-> "miss"]

RECURSIVE assign(_, _, _, _)
assign(es, e, name, value) ==
    IF Has(es[e].values, name)
    THEN [ok |-> TRUE, envs |-> [es EXCEPT ![e].values = Put(@, name, value)]]
    ELSE IF es[e].enclosing # 0 THEN assign(es, es[e].enclosing, name, value)
    ELSE [ok |-> FALSE, envs |-> es]

\* "noparent" is the unwrap() of a None enclosing: the process panics.
RECURSIVE get_at(_, _, _, _)
get_at(es, e, distance, name) ==
    IF distance = 0
    THEN IF Has(es[e].values, name)
         THEN [r |-> "hit", val |-> es[e].values[name]]
         ELSE [r |-> "miss"]
    ELSE IF es[e].enclosing = 0 THEN [r |-> "noparent"]
    ELSE get_at(es, es[e].enclosing, distance - 1, name)

RECURSIVE assign_at(_, _, _, _, _)
assign_at(es, e, distance, name, value) ==
    IF distance = 0
    THEN [r |-> "ok", envs |-> [es EXCEPT ![e].values = Put(@, name, value)]]
    ELSE IF es[e].enclosing = 0 THEN [r |-> "noparent", envs |-> es]
    ELSE assign_at(es, es[e].enclosing, distance - 1, name, value)

(***************************************************************************)
(* Source trees.  A source is written as the tree the recursive-descent    *)
(* parser builds, without ExprIds; Parse hands the ids out.  NoneX is an   *)
(* absent Option.                                                          *)
(***************************************************************************)
NoneX == [k |-> "None"]

Num(n) == [k |-> "Number", value |-> n]

Str(s) == [k |-> "String", value |-> s]

Bool(b) == [k |-> "Boolean", value |-> b]

NilE == [k |-> "Nil"]

Var(name) == [k |-> "Variable", name |-> name]

Asg(name, e) == [k |-> "Assign", name |-> name, expr |-> e]

List(elements) == [k |-> "List", elements |-> elements]

GetIndex(object, index) ==
    [k |-> "GetIndex", object |-> object, index |-> index]

SetIndex(object, index, value) ==
    [k |-> "SetIndex", object |-> object, index |-> index, value |-> value]

AsgOp(name, op, e) == [k |-> "AssignOp", name |-> name, op |-> op, expr |-> e]

Bin(l, op, r) == [k |-> "Binary", left |-> l, op |-> op, right |-> r]

Call(callee, args) == [k |-> "Call", callee |-> callee, args |-> args]

Get(object, name) == [k |-> "Get", object |-> object, name |-> name]

SetP(object, name, value) ==
    [k |-> "Set", object |-> object, name |-> name, value |-> value]

This == [k |-> "This"]

Super(method) == [k |-> "Super", method |-> method]

Lambda(params, body) == [k |-> "Lambda", params |-> params, body |-> body]

ExprS(e) == [k |-> "Expression", expr |-> e]

PrintS(e) == [k |-> "Print", expr |-> e]

VarDecl(name, init) == [k |-> "VarDecl", name |-> name, initializer |-> init]

Block(body) == [k |-> "Block", body |-> body]

If(c, t, e) ==
    [k |-> "If", condition |-> c, then_branch |-> t, else_branch |-> e]

Try(try_body, catch_var, catch_body) ==
    [k |-> "Try", try_body |-> try_body, catch_var |-> catch_var,
     catch_body |-> catch_body]

While(c, body) == [k |-> "While", condition |-> c, body |-> body]

For(init, c, incr, body) ==
    [k |-> "For", initializer |-> init, condition |-> c, increment |-> incr,
     body |-> body]

Fun(name, params, body) ==
    [k |-> "Function", name |-> name, params |-> params, body |-> body]

Class(name, superclass, methods) ==
    [k |-> "Class", name |-> name, superclass |-> superclass,
     methods |-> methods]

Return(value) == [k |-> "Return", value |-> value]

Break == [k |-> "Break"]

Continue == [k |-> "Continue"]

Export(stmt) == [k |-> "Export", stmt |-> stmt]

Empty == [k |-> "Empty"]

(***************************************************************************)
(* Parser (src/parser).  h is the ParseHelper: next_id, loop_depth and     *)
(* func_depth.  A result is [ok, ast, h]; ok = FALSE is Err(Error).        *)
(***************************************************************************)
\* `of` is history: the text a helper parses, carried by the ids it hands out
ParseHelper_new == [next_id |-> 0, loop_depth |-> 0, func_depth |-> 0, of |-> ""]

\* generate_id: returns the id and the helper with the counter advanced.
\* An ExprId is its number n; the side table is keyed by n alone.
generate_id(h) ==
    [id |-> [n |-> h.next_id, of |-> h.of], h |-> [h EXCEPT !.next_id = @ + 1]]

POk(ast, h) == [ok |-> TRUE, ast |-> ast, h |-> h]

PErr(h) == [ok |-> FALSE, ast |-> NoneX, h |-> h]

\* `this` and `super.NAME` primaries: a fresh ExprId each
ParseThisSuper(e, h) ==
    LET g == generate_id(h)
    IN  IF e.k = "This" THEN POk([k |-> "This", id |-> g.id], g.h)
        ELSE POk([k |-> "Super", id |-> g.id, method |-> e.method], g.h)

\* A call of one of the program's functions by name: the parser's, the
\* resolver's and the interpreter's methods (`self.parse_statement()`,
\* `self.resolve_stmt(..)`, `self.evaluate(..)`, ...) call one another through
\* `dispatch`, which runs the named function on its arguments.
RECURSIVE dispatch(_, _)

RECURSIVE ParseOptExpr(_, _)
RECURSIVE ParseExprs(_, _)
RECURSIVE ParseStmts(_, _)
RECURSIVE parse_function_params_and_body(_, _, _)
\* a comma-separated expression list, left to right
ParseExprs(es, h) ==
    IF es = <<>> THEN POk(<<>>, h)
    ELSE LET r1 == dispatch("ParseExpr", << Head(es), h >>)
         IN  IF ~r1.ok THEN r1
             ELSE LET r2 == ParseExprs(Tail(es), r1.h)
                  IN  IF ~r2.ok THEN r2 ELSE POk(<<r1.ast>> \o r2.ast, r2.h)

\* parse_block / parse_program: statements in order, fail fast
ParseStmts(ss, h) ==
    IF ss = <<>> THEN POk(<<>>, h)
    ELSE LET r1 == dispatch("ParseStmt", << Head(ss), h >>)
         IN  IF ~r1.ok THEN r1
             ELSE LET r2 == ParseStmts(Tail(ss), r1.h)
                  IN  IF ~r2.ok THEN r2 ELSE POk(<<r1.ast>> \o r2.ast, r2.h)

\* a function body parsed with the loop counter of the enclosing code
parse_body_keeping_loop_depth(params, body, h) ==
    LET previous_func_depth == h.func_depth
        body_result == ParseStmts(body, [h EXCEPT !.func_depth = @ + 1])
    IN  [body_result EXCEPT !.h.func_depth = previous_func_depth]

\* the function body is parsed with func_depth + 1 and loop_depth = 0; both
\* counters are put back whatever the body's result
parse_function_params_and_body(params, body, h) ==
    LET previous_func_depth == h.func_depth
        previous_loop_depth == h.loop_depth
        inner == [h EXCEPT !.func_depth = @ + 1, !.loop_depth = 0]
        body_result == ParseStmts(body, inner)
        restored == [body_result.h EXCEPT !.func_depth = previous_func_depth,
                                          !.loop_depth = previous_loop_depth]
    IN  [body_result EXCEPT !.h = restored]

\* parse_list: the elements in order
parse_list(e, h) ==
    LET es == ParseExprs(e.elements, h)
    IN  IF ~es.ok THEN es ELSE POk(List(es.ast), es.h)

\* a subscript `object[index]`: the object, then the index; the node reads
\* and writes no name and takes no id
parse_index(e, h) ==
    LET es == ParseExprs(<< e.object, e.index >>, h)
    IN  IF ~es.ok THEN es ELSE POk(GetIndex(es.ast[1], es.ast[2]), es.h)

\* parse_assignment on a subscript: the target (object, index), the value,
\* then the SetIndex node takes an id
parse_set_index(e, h) ==
    LET es == ParseExprs(<< e.object, e.index, e.value >>, h)
    IN  IF ~es.ok THEN es
        ELSE LET g == generate_id(es.h)
             IN  POk([k |-> "SetIndex", id |-> g.id, object |-> es.ast[1],
                      index |-> es.ast[2], value |-> es.ast[3]], g.h)

ParseExpr(e, h) ==
    CASE e.k \in {"Number", "String", "Boolean", "Nil"} -> POk(e, h)
      [] e.k = "List" -> parse_list(e, h)
      [] e.k = "GetIndex" -> parse_index(e, h)
      [] e.k = "SetIndex" -> parse_set_index(e, h)
      [] e.k = "Variable" ->
            LET g == generate_id(h)
            IN  POk([k |-> "Variable", id |-> g.id, name |-> e.name], g.h)
      [] e.k \in {"Assign", "AssignOp"} ->
            \* the target is first parsed as a Variable (its id is dropped),
            \* then the value, then the node gets its own id
            LET t == generate_id(h)
                v == dispatch("ParseExpr", << e.expr, t.h >>)
            IN  IF ~v.ok THEN v
                ELSE LET g == generate_id(v.h)
                     IN  IF e.k = "Assign"
                         THEN POk([k |-> "Assign", id |-> g.id,
                                   name |-> e.name, expr |-> v.ast], g.h)
                         ELSE POk([k |-> "AssignOp", id |-> g.id,
                                   name |-> e.name, op |-> e.op,
                                   expr |-> v.ast], g.h)
      [] e.k = "Binary" ->
            LET l == dispatch("ParseExpr", << e.left, h >>)
            IN  IF ~l.ok THEN l
                ELSE LET r == dispatch("ParseExpr", << e.right, l.h >>)
                     IN  IF ~r.ok THEN r
                         ELSE POk([k |-> "Binary", left |-> l.ast, op |-> e.op,
                                   right |-> r.ast], r.h)
      [] e.k = "Call" ->
            LET c == dispatch("ParseExpr", << e.callee, h >>)
            IN  IF ~c.ok THEN c
                ELSE LET a == ParseExprs(e.args, c.h)
                     IN  IF ~a.ok THEN a
                         ELSE LET g == generate_id(a.h)
                              IN  POk([k |-> "Call", id |-> g.id,
                                       callee |-> c.ast, args |-> a.ast], g.h)
      [] e.k = "Get" ->
            LET o == dispatch("ParseExpr", << e.object, h >>)
            IN  IF ~o.ok THEN o
                ELSE POk([k |-> "Get", object |-> o.ast, name |-> e.name], o.h)
      [] e.k = "Set" ->
            LET o == dispatch("ParseExpr", << e.object, h >>)
            IN  IF ~o.ok THEN o
                ELSE LET v == dispatch("ParseExpr", << e.value, o.h >>)
                     IN  IF ~v.ok THEN v
                         ELSE POk([k |-> "Set", object |-> o.ast,
                                   name |-> e.name, value |-> v.ast], v.h)
      [] e.k \in {"This", "Super"} -> ParseThisSuper(e, h)
      [] e.k = "Lambda" ->
            LET b == parse_function_params_and_body(e.params, e.body, h)
            IN  IF ~b.ok THEN b
                ELSE LET g == generate_id(b.h)
                     IN  POk([k |-> "Lambda", id |-> g.id, params |-> e.params,
                              body |-> b.ast], g.h)

\* an Option<Expr> or Option<Stmt>
ParseOptExpr(e, h) == IF e = NoneX THEN POk(NoneX, h) ELSE dispatch("ParseExpr", << e, h >>)

ParseStmt(s, h) ==
    CASE s.k \in {"Expression", "Print"} ->
            LET r == dispatch("ParseExpr", << s.expr, h >>)
            IN  IF ~r.ok THEN r ELSE POk([k |-> s.k, expr |-> r.ast], r.h)
      [] s.k = "VarDecl" ->
            LET r == ParseOptExpr(s.initializer, h)
            IN  IF ~r.ok THEN r
                ELSE POk([k |-> "VarDecl", name |-> s.name,
                          initializer |-> r.ast], r.h)
      [] s.k = "Block" ->
            LET r == ParseStmts(s.body, h)
            IN  IF ~r.ok THEN r ELSE POk([k |-> "Block", body |-> r.ast], r.h)
      [] s.k = "If" ->
            LET c == dispatch("ParseExpr", << s.condition, h >>)
            IN  IF ~c.ok THEN c
                ELSE LET t == dispatch("ParseStmt", << s.then_branch, c.h >>)
                     IN  IF ~t.ok THEN t
                         ELSE LET f == IF s.else_branch = NoneX
                                       THEN POk(NoneX, t.h)
                                       ELSE dispatch("ParseStmt", << s.else_branch, t.h >>)
                              IN  IF ~f.ok THEN f
                                  ELSE POk([k |-> "If", condition |-> c.ast,
                                            then_branch |-> t.ast,
                                            else_branch |-> f.ast], f.h)
      [] s.k = "Try" ->
            LET t == ParseStmts(s.try_body, h)
            IN  IF ~t.ok THEN t
                ELSE LET c == ParseStmts(s.catch_body, t.h)
                     IN  IF ~c.ok THEN c
                         ELSE POk([k |-> "Try",
                                   try_branch |-> [k |-> "Block", body |-> t.ast],
                                   catch_var |-> s.catch_var,
                                   catch_branch |-> [k |-> "Block", body |-> c.ast]],
                                  c.h)
      [] s.k = "While" ->
            LET c == dispatch("ParseExpr", << s.condition, h >>)
            IN  IF ~c.ok THEN c
                ELSE LET b == dispatch("ParseStmt", << s.body,
                                        [c.h EXCEPT !.loop_depth = @ + 1] >>)
                         hb == [b.h EXCEPT !.loop_depth = @ - 1]
                     IN  IF ~b.ok THEN [b EXCEPT !.h = hb]
                         ELSE POk([k |-> "While", condition |-> c.ast,
                                   body |-> b.ast], hb)
      [] s.k = "For" ->
            LET i == IF s.initializer = NoneX THEN POk(NoneX, h)
                     ELSE dispatch("ParseStmt", << s.initializer, h >>)
            IN  IF ~i.ok THEN i
                ELSE LET c == ParseOptExpr(s.condition, i.h)
                     IN  IF ~c.ok THEN c
                         ELSE LET n == ParseOptExpr(s.increment, c.h)
                              IN  IF ~n.ok THEN n
                                  ELSE LET b == dispatch("ParseStmt", << s.body,
                                                 [n.h EXCEPT !.loop_depth = @ + 1] >>)
                                           hb == [b.h EXCEPT !.loop_depth = @ - 1]
                                       IN  IF ~b.ok THEN [b EXCEPT !.h = hb]
                                           ELSE POk([k |-> "For",
                                                     initializer |-> i.ast,
                                                     condition |-> c.ast,
                                                     increment |-> n.ast,
                                                     body |-> b.ast], hb)
      [] s.k = "Function" ->
            LET b == parse_function_params_and_body(s.params, s.body, h)
            IN  IF ~b.ok THEN b
                ELSE POk([k |-> "Function", name |-> s.name,
                          params |-> s.params, body |-> b.ast], b.h)
      [] s.k = "Class" ->
            \* the superclass name is a Variable with a fresh id
            LET g == generate_id(h)
                sup == IF s.superclass = NoneX THEN POk(NoneX, h)
                       ELSE POk([k |-> "Variable", id |-> g.id,
                                 name |-> s.superclass.name], g.h)
                m == ParseStmts(s.methods, sup.h)
            IN  IF ~m.ok THEN m
                ELSE POk([k |-> "Class", name |-> s.name,
                          superclass |-> sup.ast, methods |-> m.ast], m.h)
      [] s.k = "Return" ->
            \* at func_depth = 0 an Error is built and dropped: no early return
            LET r == ParseOptExpr(s.value, h)
            IN  IF ~r.ok THEN r
                ELSE POk([k |-> "Return", value |-> r.ast], r.h)
      [] s.k \in {"Break", "Continue"} ->
            IF h.loop_depth = 0 THEN PErr(h) ELSE POk(s, h)
      [] s.k = "Export" ->
            LET r == dispatch("ParseStmt", << s.stmt, h >>)
            IN  IF ~r.ok THEN r ELSE POk([k |-> "Export", stmt |-> r.ast], r.h)
      [] s.k = "Empty" -> POk(s, h)

\* parser::parse: a new Parser, ids from 0
parse(source, of) == ParseStmts(source, [ParseHelper_new EXCEPT !.of = of])

(***************************************************************************)
(* Resolver (src/resolver/resolve.rs).  rs holds the Resolver's fields and *)
(* the interpreter's side table it writes into (Interpreter::resolve).     *)
(* A result is [ok, rs]; ok = FALSE is Err(String).  Entries written       *)
(* before an error stay in the side table.                                 *)
(***************************************************************************)
Resolver_new(side_table) ==
    [scopes |-> <<>>, current_function |-> "None", current_class |-> "None",
     current_loop |-> "None", locals |-> side_table]

ROk(rs) == [ok |-> TRUE, rs |-> rs]

RErr(rs) == [ok |-> FALSE, rs |-> rs]

begin_scope(rs) == [rs EXCEPT !.scopes = Append(@, EmptyMap)]

end_scope(rs) == [rs EXCEPT !.scopes = Front(@)]

\* begin_scope followed by the manual insert of "super" / "this" as defined
begin_scope_with(rs, name) == [rs EXCEPT !.scopes = Append(@, name :> TRUE)]

\* a declare that overwrites an entry of the same scope
declare_again(rs, name) ==
    IF rs.scopes = <<>> THEN ROk(rs)
    ELSE ROk([rs EXCEPT !.scopes[Len(rs.scopes)] = Put(@, name, FALSE)])

declare(rs, name) ==
    IF rs.scopes = <<>> THEN ROk(rs)
    ELSE IF Has(Last(rs.scopes), name) THEN RErr(rs)
    ELSE ROk([rs EXCEPT !.scopes[Len(rs.scopes)] = Put(@, name, FALSE)])

define_name(rs, name) ==
    IF rs.scopes = <<>> THEN rs
    ELSE [rs EXCEPT !.scopes[Len(rs.scopes)] = Put(@, name, TRUE)]

\* the scopes that contain the name, as distances from the innermost
ScopeHits(rs, name) ==
    {i \in 0 .. Len(rs.scopes) - 1 : Has(rs.scopes[Len(rs.scopes) - i], name)}

Min(S) == CHOOSE x \in S : \A y \in S : x <= y

\* Interpreter::resolve(id, i) for the first scope found; nothing otherwise
resolve_local(rs, id, name) ==
    IF ScopeHits(rs, name) = {} THEN rs
    ELSE [rs EXCEPT !.locals = Put(@, id.n, Min(ScopeHits(rs, name)))]

RECURSIVE resolve_stmts(_, _)
RECURSIVE resolve_exprs(_, _)
RECURSIVE resolve_function(_, _, _, _)
RECURSIVE declare_params(_, _)
RECURSIVE resolve_methods(_, _)
resolve_stmts(statements, rs) ==
    IF statements = <<>> THEN ROk(rs)
    ELSE LET r == dispatch("resolve_stmt", << Head(statements), rs >>)
         IN  IF ~r.ok THEN r ELSE resolve_stmts(Tail(statements), r.rs)

resolve_exprs(es, rs) ==
    IF es = <<>> THEN ROk(rs)
    ELSE LET r == dispatch("resolve_expr", << Head(es), rs >>)
         IN  IF ~r.ok THEN r ELSE resolve_exprs(Tail(es), r.rs)

declare_params(params, rs) ==
    IF params = <<>> THEN ROk(rs)
    ELSE LET d == declare(rs, Head(params))
         IN  IF ~d.ok THEN d
             ELSE declare_params(Tail(params), define_name(d.rs, Head(params)))

\* a resolve_function that takes every function for a plain one
resolve_function_as_plain(params, body, f_type, rs) ==
    LET enclosing_func == rs.current_function
        entered == begin_scope([rs EXCEPT !.current_function = "Function"])
        p == declare_params(params, entered)
    IN  IF ~p.ok THEN p
        ELSE LET b == resolve_stmts(body, p.rs)
             IN  IF ~b.ok THEN b
                 ELSE ROk([end_scope(b.rs) EXCEPT
                              !.current_function = enclosing_func])

resolve_function(params, body, f_type, rs) ==
    LET enclosing_func == rs.current_function
        entered == begin_scope([rs EXCEPT !.current_function = f_type])
        p == declare_params(params, entered)
    IN  IF ~p.ok THEN p
        ELSE LET b == resolve_stmts(body, p.rs)
             IN  IF ~b.ok THEN b
                 ELSE ROk([end_scope(b.rs) EXCEPT
                              !.current_function = enclosing_func])

resolve_methods(methods, rs) ==
    IF methods = <<>> THEN ROk(rs)
    ELSE LET m == Head(methods)
             declaration == IF m.name = "init" THEN "Initializer" ELSE "Method"
             r == resolve_function(m.params, m.body, declaration, rs)
         IN  IF ~r.ok THEN r ELSE resolve_methods(Tail(methods), r.rs)

\* try/catch: the catch variable lives in a scope of its own around the
\* catch block (the evaluator binds it in a new environment)
ResolveTry(s, rs) ==
    LET t == dispatch("resolve_stmt", << s.try_branch, rs >>)
    IN  IF ~t.ok THEN t
        ELSE LET c == dispatch("resolve_stmt", << s.catch_branch,
                                   begin_scope_with(t.rs, s.catch_var) >>)
             IN  IF ~c.ok THEN c ELSE ROk(end_scope(c.rs))

\* export: the wrapped declaration is resolved in place
ResolveExport(s, rs) == dispatch("resolve_stmt", << s.stmt, rs >>)

\* lambda: a function body like any other
ResolveLambda(e, rs) == resolve_function(e.params, e.body, "Function", rs)

resolve_stmt(s, rs) ==
    CASE s.k = "Block" ->
            LET r == resolve_stmts(s.body, begin_scope(rs))
            IN  IF ~r.ok THEN r ELSE ROk(end_scope(r.rs))
      [] s.k = "VarDecl" ->
            LET d == declare(rs, s.name)
            IN  IF ~d.ok THEN d
                ELSE LET i == IF s.initializer = NoneX THEN ROk(d.rs)
                              ELSE dispatch("resolve_expr", << s.initializer, d.rs >>)
                     IN  IF ~i.ok THEN i ELSE ROk(define_name(i.rs, s.name))
      [] s.k = "Function" ->
            LET d == declare(rs, s.name)
            IN  IF ~d.ok THEN d
                ELSE resolve_function(s.params, s.body, "Function",
                                      define_name(d.rs, s.name))
      [] s.k = "Class" ->
            LET enclosing_class == rs.current_class
                d == declare([rs EXCEPT !.current_class = "Class"], s.name)
            IN  IF ~d.ok THEN d
                ELSE LET r1 == define_name(d.rs, s.name)
                         sup == IF s.superclass = NoneX THEN ROk(r1)
                                ELSE IF s.superclass.name = s.name
                                     THEN RErr([r1 EXCEPT !.current_class = "Subclass"])
                                ELSE dispatch("resolve_expr", << s.superclass,
                                       [r1 EXCEPT !.current_class = "Subclass"] >>)
                     IN  IF ~sup.ok THEN sup
                         ELSE LET r2 == IF s.superclass # NoneX
                                        THEN begin_scope_with(sup.rs, "super")
                                        ELSE sup.rs
                                  r3 == begin_scope_with(r2, "this")
                                  m == resolve_methods(s.methods, r3)
                              IN  IF ~m.ok THEN m
                                  ELSE LET r4 == end_scope(m.rs)
                                           r5 == IF s.superclass # NoneX
                                                 THEN end_scope(r4) ELSE r4
                                       IN  ROk([r5 EXCEPT !.current_class =
                                                   enclosing_class])
      [] s.k \in {"Expression", "Print"} -> dispatch("resolve_expr", << s.expr, rs >>)
      [] s.k = "If" ->
            LET c == dispatch("resolve_expr", << s.condition, rs >>)
            IN  IF ~c.ok THEN c
                ELSE LET t == dispatch("resolve_stmt", << s.then_branch, c.rs >>)
                     IN  IF ~t.ok THEN t
                         ELSE IF s.else_branch = NoneX THEN t
                         ELSE dispatch("resolve_stmt", << s.else_branch, t.rs >>)
      [] s.k = "While" ->
            LET c == dispatch("resolve_expr", << s.condition, rs >>)
            IN  IF ~c.ok THEN c
                ELSE LET enclosing_loop == c.rs.current_loop
                         b == dispatch("resolve_stmt", << s.body,
                                  [c.rs EXCEPT !.current_loop = "Loop"] >>)
                     IN  IF ~b.ok THEN b
                         ELSE ROk([b.rs EXCEPT !.current_loop = enclosing_loop])
      [] s.k = "For" ->
            LET r0 == begin_scope(rs)
                i == IF s.initializer = NoneX THEN ROk(r0)
                     ELSE dispatch("resolve_stmt", << s.initializer, r0 >>)
            IN  IF ~i.ok THEN i
                ELSE LET c == IF s.condition = NoneX THEN i
                              ELSE dispatch("resolve_expr", << s.condition, i.rs >>)
                     IN  IF ~c.ok THEN c
                         ELSE LET n == IF s.increment = NoneX THEN c
                                       ELSE dispatch("resolve_expr", << s.increment, c.rs >>)
                              IN  IF ~n.ok THEN n
                                  ELSE LET enclosing_loop == n.rs.current_loop
                                           b == dispatch("resolve_stmt", << s.body,
                                                  [n.rs EXCEPT !.current_loop = "Loop"] >>)
                                       IN  IF ~b.ok THEN b
                                           ELSE ROk(end_scope(
                                                  [b.rs EXCEPT !.current_loop =
                                                      enclosing_loop]))
      [] s.k = "Return" ->
            IF rs.current_function = "None" THEN RErr(rs)
            ELSE IF s.value = NoneX THEN ROk(rs)
            ELSE IF rs.current_function = "Initializer" THEN RErr(rs)
            ELSE dispatch("resolve_expr", << s.value, rs >>)
      [] s.k \in {"Break", "Continue"} ->
            IF rs.current_loop = "None" THEN RErr(rs) ELSE ROk(rs)
      [] s.k = "Empty" -> ROk(rs)
      [] s.k = "Try" -> ResolveTry(s, rs)
      [] s.k = "Export" -> ResolveExport(s, rs)

resolve_expr(e, rs) ==
    CASE e.k = "List" -> resolve_exprs(e.elements, rs)
      [] e.k = "GetIndex" -> resolve_exprs(<< e.object, e.index >>, rs)
      [] e.k = "SetIndex" ->
            resolve_exprs(<< e.object, e.index, e.value >>, rs)
      [] e.k = "Variable" ->
            IF rs.scopes # <<>> /\ Has(Last(rs.scopes), e.name)
               /\ Last(rs.scopes)[e.name] = FALSE
            THEN RErr(rs)
            ELSE ROk(resolve_local(rs, e.id, e.name))
      [] e.k \in {"Assign", "AssignOp"} ->
            LET v == dispatch("resolve_expr", << e.expr, rs >>)
            IN  IF ~v.ok THEN v ELSE ROk(resolve_local(v.rs, e.id, e.name))
      [] e.k = "Binary" ->
            LET l == dispatch("resolve_expr", << e.left, rs >>)
            IN  IF ~l.ok THEN l ELSE dispatch("resolve_expr", << e.right, l.rs >>)
      [] e.k = "Call" ->
            LET c == dispatch("resolve_expr", << e.callee, rs >>)
            IN  IF ~c.ok THEN c ELSE resolve_exprs(e.args, c.rs)
      [] e.k = "Super" ->
            IF rs.current_class # "Subclass" THEN RErr(rs)
            ELSE ROk(resolve_local(rs, e.id, "super"))
      [] e.k \in {"Number", "String", "Boolean", "Nil"} -> ROk(rs)
      [] e.k = "Get" -> dispatch("resolve_expr", << e.object, rs >>)
      [] e.k = "Set" ->
            LET v == dispatch("resolve_expr", << e.value, rs >>)
            IN  IF ~v.ok THEN v ELSE dispatch("resolve_expr", << e.object, v.rs >>)
      [] e.k = "This" ->
            IF rs.current_class = "None" THEN RErr(rs)
            ELSE ROk(resolve_local(rs, e.id, "this"))
      [] e.k = "Lambda" -> ResolveLambda(e, rs)

(***************************************************************************)
(* Interpreter (src/evaluate/interpreter.rs).  st is the Interpreter       *)
(* struct together with the two heaps, stdout and the observation log.     *)
(* A result is [k, val, st]: k = "Ok" is Ok(val); "Err" is an ordinary     *)
(* RuntimeError whose Display text is val; "Return", "Break" and           *)
(* "Continue" are the control-flow variants; "Panic" is a Rust panic       *)
(* (unwrap of None, panic!), which ends the process; "Hang" is a loop      *)
(* that never ends, after which nothing of the process runs either.        *)
(***************************************************************************)
Ok(v, st) == [k |-> "Ok", val |-> v, st |-> st]

Err(msg, st) == [k |-> "Err", val |-> String(msg), st |-> st]

Signal(kind, v, st) == [k |-> kind, val |-> v, st |-> st]

Panic(st) == [k |-> "Panic", val |-> Nil, st |-> st]

Hang(st) == [k |-> "Hang", val |-> Nil, st |-> st]

\* the results after which no code of the interpreter runs: no handler, no
\* restore, no return
Stops == {"Panic", "Hang"}

\* a match that lets a return signal fall through to the catch arm
loop_signals_only(r) == r.k \in {"Break", "Continue"}

\* the match arm RuntimeError::Break | Continue | Return(_)
IsControlFlow(r) == r.k \in {"Return", "Break", "Continue"}

\* Display of RuntimeError::UndefinedVariable
UndefinedVariable(name) == "Undefined variable '" \o name \o "'."

Log(st, event) == [st EXCEPT !.trace = Append(@, event)]

\* Rc::new(RefCell::new(env)): the new object is the last one of the heap
NewEnv(st, env) == [st EXCEPT !.envs = Append(@, env)]

NewObj(st, obj) == [st EXCEPT !.objs = Append(@, obj)]

\* the outermost environment of a chain: the top-level environment of the
\* program or module whose text is running
RECURSIVE Root(_, _)
Root(es, e) == IF es[e].enclosing = 0 THEN e ELSE Root(es, es[e].enclosing)

\* time and stdin are not modelled: clock reads 0 and input reads ""
init_globals(env) ==
    [env EXCEPT !.values =
        ("fs" :> NativeModule("fs")) @@ ("math" :> NativeModule("math")) @@
        ("clock" :> NativeFunction("clock", 0)) @@
        ("input" :> NativeFunction("input", 1)) @@
        ("import" :> NativeFunction("import", 1)) @@ @]

Interpreter_new ==
    [envs |-> <<init_globals(Environment_new)>>, objs |-> <<>>,
     environment |-> 1, globals |-> 1, locals |-> EmptyMap,
     modules |-> EmptyMap, path_stack |-> <<>>, exports_stack |-> <<>>,
     out |-> <<>>, trace |-> <<>>, iterations |-> 0]

\* RoxClass::find_method: own methods first, then the superclass chain
RECURSIVE find_method(_, _, _)
find_method(os, class, name) ==
    IF Has(os[class].methods, name)
    THEN [found |-> TRUE, method |-> os[class].methods[name]]
    ELSE IF os[class].superclass # 0
    THEN find_method(os, os[class].superclass, name)
    ELSE [found |-> FALSE]

\* Expr::Super: "super" is read at the distance the resolver recorded
super_at(st, distance) == get_at(st.envs, st.environment, distance, "super")

\* Value::bind: a new environment around the closure that defines "this"
bind(method, instance, st) ==
    LET st1 == NewEnv(st, [values |-> ("this" :> instance),
                           enclosing |-> method.closure])
    IN  [val |-> [method EXCEPT !.closure = Len(st1.envs)], st |-> st1]

\* history of `+` on two lists that ended with r: the elements of both
\* operands before, and of the right operand and the result after
Concatenated(r, left, right, st) ==
    [r EXCEPT !.st =
        Log(r.st, [ev |-> "concat", res |-> r.k,
                   same |-> left.ref = right.ref,
                   left |-> st.objs[left.ref].elements,
                   right |-> st.objs[right.ref].elements,
                   right_after |-> r.st.objs[right.ref].elements,
                   result |-> IF r.k = "Ok" THEN r.st.objs[r.val.ref].elements
                              ELSE <<>>])]

add_values(left, right, st) ==
    IF left.t = "Number" /\ right.t = "Number"
    THEN Ok(Ratio(left.n * right.d + right.n * left.d, left.d * right.d), st)
    ELSE IF left.t = "String" /\ right.t = "String"
    THEN Ok(String(left.s \o right.s), st)
    ELSE IF left.t = "List" /\ right.t = "List"
    THEN \* list1.borrow_mut() is held while list2.borrow() is taken: the
         \* RefCell panics when both are the same vector
         Concatenated(
            IF left.ref = right.ref THEN Panic(st)
            ELSE Ok(left, [st EXCEPT !.objs[left.ref].elements =
                                          @ \o st.objs[right.ref].elements]),
            left, right, st)
    ELSE Err("Type error: Binary operator '+' requires two numbers or two strings.", st)

check_number_operands(left, right, result, st) ==
    IF left.t = "Number" /\ right.t = "Number" THEN result
    ELSE Err("Type error: Operands must be numbers.", st)

\* the Binary arm once both operands are values
binary_op(op, l, r, st) ==
    CASE op = "Add" -> add_values(l, r, st)
      [] op = "Sub" ->
            check_number_operands(l, r,
                Ok(Ratio(l.n * r.d - r.n * l.d, l.d * r.d), st), st)
      [] op = "Mul" ->
            check_number_operands(l, r, Ok(Ratio(l.n * r.n, l.d * r.d), st), st)
      [] op = "Div" ->
            check_number_operands(l, r,
                IF r.n = 0 THEN Err("Division by zero.", st)
                ELSE Ok(Ratio(l.n * r.d, l.d * r.n), st), st)
      [] op = "Greater" ->
            check_number_operands(l, r,
                Ok(Boolean(l.n * r.d > r.n * l.d), st), st)
      [] op = "Less" ->
            check_number_operands(l, r,
                Ok(Boolean(l.n * r.d < r.n * l.d), st), st)
      [] op = "Equal" -> Ok(Boolean(l = r), st)
      [] op = "NotEqual" -> Ok(Boolean(l # r), st)
      [] OTHER -> Err("Unknown binary operator", st)

\* which environment a global access consults (self.globals) next to the
\* top-level environment of the running text
GlobalAccess(st, op, name, expr_id) ==
    Log(st, [ev |-> "global", op |-> op, name |-> name, id |-> expr_id,
             used |-> st.globals,
             home |-> Root(st.envs, st.environment)])

\* the names each environment binds
Bound(es) == [e \in DOMAIN es |-> DOMAIN es[e].values]

\* history of an assignment that ended with r, begun in state st
Assigned(r, st, expr) ==
    [r EXCEPT !.st =
        Log(r.st, [ev |-> "assign", id |-> expr.id, name |-> expr.name,
                   defined |-> get(st.envs, st.globals, expr.name).r = "hit",
                   res |-> r.k,
                   changed |-> Bound(r.st.envs) # Bound(st.envs)])]

\* what the variable an assignment names holds in state st
Holds(st, expr) ==
    LET r == IF Has(st.locals, expr.id.n)
             THEN get_at(st.envs, st.environment, st.locals[expr.id.n], expr.name)
             ELSE get(st.envs, st.globals, expr.name)
    IN  IF r.r = "hit" THEN r.val ELSE Nil

\* history of a compound assignment that ended with r: the operator, the
\* two operands, and what the variable holds afterwards
OpAssigned(r, expr, current_val, right_val) ==
    [r EXCEPT !.st =
        Log(r.st, [ev |-> "assign_op", op |-> expr.op, name |-> expr.name,
                   current |-> current_val, right |-> right_val,
                   res |-> r.k, val |-> r.val,
                   stored |-> Holds(r.st, expr)])]

look_up_variable(name, expr_id, st) ==
    IF Has(st.locals, expr_id.n)
    THEN LET distance == st.locals[expr_id.n]
             r == get_at(st.envs, st.environment, distance, name)
             st1 == Log(st, [ev |-> "local", id |-> expr_id, name |-> name,
                             distance |-> distance, r |-> r.r])
         IN  IF r.r = "hit" THEN Ok(r.val, st1)
             ELSE IF r.r = "miss" THEN Err(UndefinedVariable(name), st1)
             ELSE Panic(st1)
    ELSE LET r == get(st.envs, st.globals, name)
             st1 == GlobalAccess(st, "read", name, expr_id)
         IN  IF r.r = "hit" THEN Ok(r.val, st1)
             ELSE Err(UndefinedVariable(name), st1)

(***************************************************************************)
(* The files the interpreter can reach.  Cwd is the working directory of   *)
(* the process; Canonical is fs::canonicalize on the joined paths that     *)
(* exist; Files gives, for an absolute path, the directory, whether the    *)
(* file can be read as text, whether the text scans, and the text.         *)
(***************************************************************************)
Cwd == "/w"

File(dir, text) == [dir |-> dir, readable |-> TRUE, scans |-> TRUE, text |-> text]

Unreadable(dir) == [dir |-> dir, readable |-> FALSE, scans |-> FALSE, text |-> <<>>]

Unscannable(dir) == [dir |-> dir, readable |-> TRUE, scans |-> FALSE, text |-> <<>>]

Import(path) == Call(Var("import"), <<Str(path)>>)

\* counter.rox:  var n = 0; export fun bump() { n = n + 1; return n; }
CounterModule ==
    << VarDecl("n", Num(0)),
       Export(Fun("bump", <<>>,
           << ExprS(Asg("n", Bin(Var("n"), "Add", Num(1)))),
              Return(Var("n")) >>)) >>

\* a.rox:  export var b = import("b.rox"); export var x = 1;
AModule == << Export(VarDecl("b", Import("b.rox"))), Export(VarDecl("x", Num(1))) >>

\* b.rox:  export var a = import("a.rox"); export var y = 2;
BModule == << Export(VarDecl("a", Import("a.rox"))), Export(VarDecl("y", Num(2))) >>

\* c.rox:  var d = import("d.rox"); export var x = 1;
CModule == << VarDecl("d", Import("d.rox")), Export(VarDecl("x", Num(1))) >>

\* d.rox:  var c = import("c.rox"); print c.x;
DModule == << VarDecl("c", Import("c.rox")), PrintS(Get(Var("c"), "x")) >>

\* selfish.rox:  var me = import("selfish.rox"); var z = 1 / 0;
SelfishModule ==
    << VarDecl("me", Import("selfish.rox")),
       VarDecl("z", Bin(Num(1), "Div", Num(0))) >>

\* leaky.rox:  export var x = 1; try { import("broken.rox"); } catch (e) {}
\*             export var y = 2;
LeakyModule ==
    << Export(VarDecl("x", Num(1))),
       Try(<< ExprS(Import("broken.rox")) >>, "e", <<>>),
       Export(VarDecl("y", Num(2))) >>

\* host.rox:  var x = 0; var m = import("leaky.rox"); export var z = 3;
HostModule ==
    << VarDecl("x", Num(0)), VarDecl("m", Import("leaky.rox")),
       Export(VarDecl("z", Num(3))) >>

\* locals.rox:  { var t = 0; t; t; t; t; }
LocalsModule ==
    << Block(<< VarDecl("t", Num(0)), ExprS(Var("t")), ExprS(Var("t")),
                ExprS(Var("t")), ExprS(Var("t")) >>) >>

\* lib/util.rox:  export var a = import("../a.rox");
UtilModule == << Export(VarDecl("a", Import("../a.rox"))) >>

\* shadow.rox:  var a = "global"; var f;
\*              { fun showA() { return a; } var a = "block"; f = showA; }
\*              export var show = f;
ShadowModule ==
    << VarDecl("a", Str("global")), VarDecl("f", NoneX),
       Block(<< Fun("showA", <<>>, << Return(Var("a")) >>),
                VarDecl("a", Str("block")),
                ExprS(Asg("f", Var("showA"))) >>),
       Export(VarDecl("show", Var("f"))) >>

Files ==
    ("/w/shadow.rox" :> File("/w", ShadowModule)) @@
    ("/w/counter.rox" :> File("/w", CounterModule)) @@
    ("/w/a.rox" :> File("/w", AModule)) @@
    ("/w/b.rox" :> File("/w", BModule)) @@
    ("/w/c.rox" :> File("/w", CModule)) @@
    ("/w/d.rox" :> File("/w", DModule)) @@
    ("/w/selfish.rox" :> File("/w", SelfishModule)) @@
    ("/w/locals.rox" :> File("/w", LocalsModule)) @@
    ("/w/leaky.rox" :> File("/w", LeakyModule)) @@
    ("/w/host.rox" :> File("/w", HostModule)) @@
    ("/w/lib/util.rox" :> File("/w/lib", UtilModule)) @@
    ("/w/broken.rox" :> Unreadable("/w")) @@
    ("/w/badscan.rox" :> Unscannable("/w")) @@
    ("/w/badparse.rox" :> File("/w", << Break >>)) @@
    ("/w/badresolve.rox" :> File("/w", << Return(Num(1)) >>))

Canonical ==
    [p \in DOMAIN Files |-> p] @@ ("/w/lib/../a.rox" :> "/w/a.rox")

RECURSIVE evaluate_elements(_, _)
RECURSIVE execute_stmts(_, _)
RECURSIVE execute_block(_, _, _, _)
RECURSIVE while_loop(_, _)
RECURSIVE for_loop(_, _)
RECURSIVE call_function(_, _, _, _)
RECURSIVE call_class(_, _, _)
RECURSIVE import(_, _)
RECURSIVE import_module(_, _)
RECURSIVE run_module(_, _, _, _)

\* Vec<Expr> -> Vec<Value>, left to right, stopping at the first failure
evaluate_elements(elements, st) ==
    IF elements = <<>> THEN Ok(<<>>, st)
    ELSE LET r1 == dispatch("evaluate", << Head(elements), st >>)
         IN  IF r1.k # "Ok" THEN r1
             ELSE LET r2 == evaluate_elements(Tail(elements), r1.st)
                  IN  IF r2.k # "Ok" THEN r2
                      ELSE Ok(<<r1.val>> \o r2.val, r2.st)

\* history of a subscript on a list that ended with r: the index, and the
\* elements before and after
Indexed(r, op, list, idx, st) ==
    [r EXCEPT !.st =
        Log(r.st, [ev |-> "index", op |-> op, idx |-> idx, res |-> r.k,
                   before |-> st.objs[list.ref].elements,
                   after |-> r.st.objs[list.ref].elements])]

\* the GetIndex arm once object and index are values (lists only; dicts and
\* strings are not modelled)
get_index(obj, idx, st) ==
    IF obj.t # "List"
    THEN Err("Only lists and dicts support subscripting.", st)
    ELSE Indexed(
           LET list == st.objs[obj.ref].elements
           IN  IF idx.t # "Number" THEN Err("List index must be a number.", st)
               ELSE IF fract_nonzero(idx)
               THEN Err("List index must be an integer.", st)
               ELSE IF as_usize(idx) >= Len(list)
               THEN Err("List index out of bounds.", st)
               ELSE Ok(list[as_usize(idx) + 1], st),
           "get", obj, idx, st)

\* the SetIndex arm once object, index and value are values
set_index(obj, idx, val, st) ==
    IF obj.t # "List"
    THEN Err("Only lists and dicts support subscript assignment.", st)
    ELSE Indexed(
           LET list == st.objs[obj.ref].elements
           IN  IF idx.t # "Number" THEN Err("List index must be a number.", st)
               ELSE IF fract_nonzero(idx) THEN Err("Index must be integer.", st)
               ELSE IF as_usize(idx) >= Len(list)
               THEN Err("List index out of bounds.", st)
               ELSE Ok(val, [st EXCEPT
                        !.objs[obj.ref].elements[as_usize(idx) + 1] = val]),
           "set", obj, idx, st)

\* func_env: a fresh environment around the closure holding the parameters
func_env(param_names, arg_vals, closure) ==
    [values |-> [n \in {param_names[i] : i \in DOMAIN param_names} |->
                    arg_vals[CHOOSE i \in DOMAIN param_names :
                               param_names[i] = n
                               /\ \A j \in DOMAIN param_names :
                                     param_names[j] = n => j <= i]],
     enclosing |-> closure]

\* history of one evaluation of the argument list of a call that ended
\* with r: pass 1 is the loop before the match on the callee, pass 2 the
\* loop inside the Value::Function arm
Arguments(r, pass) ==
    IF r.k \in Stops THEN r
    ELSE [r EXCEPT !.st = Log(r.st, [ev |-> "args", pass |-> pass,
                                    res |-> r.k, vals |-> r.val])]

pass_return_on(result) ==
    CASE result.k = "Ok" -> Ok(Nil, result.st)
      [] OTHER -> result

\* what a user-function call makes of the result of its body
call_result(result) ==
    CASE result.k = "Ok" -> Ok(Nil, result.st)
      [] result.k = "Return" -> Ok(result.val, result.st)
      [] OTHER -> result

\* Expr::Call on a Value::Function: the arguments are evaluated once before
\* the match on the callee and once more inside this arm
call_function(callee_value, args, arg_vals, st) ==
    LET arity == Len(args) = Len(callee_value.args)
        again == Arguments(evaluate_elements(args, st), 2)
        called == arity /\ again.k = "Ok"
        result == execute_block(callee_value.body,
                      func_env(callee_value.args, again.val,
                               callee_value.closure),
                      "call", again.st)
        r == call_result(result)
    IN  CASE ~arity -> Err("Arity mismatch", st)
          [] arity /\ again.k # "Ok" -> again
          [] called /\ result.k \in Stops -> result
          [] called /\ result.k \notin Stops ->
                [r EXCEPT !.st =
                    Log(r.st, [ev |-> "call",
                               name |-> callee_value.name,
                               closure |-> callee_value.closure,
                               args |-> again.val,
                               res |-> r.k, val |-> r.val])]

\* Expr::Call on a Value::Class
call_class(klass, arg_vals, st) ==
    LET st1 == NewObj(st, RoxInstance(klass.ref))
        instance == InstanceRef(Len(st1.objs))
        initializer == find_method(st1.objs, klass.ref, "init")
        bound_init == bind(initializer.method, instance, st1)
        arity == initializer.found
                 /\ Len(arg_vals) = Len(bound_init.val.args)
        result == execute_block(bound_init.val.body,
                      func_env(bound_init.val.args, arg_vals,
                               bound_init.val.closure),
                      "init", bound_init.st)
    IN  CASE ~initializer.found /\ arg_vals # <<>> ->
                Err("Expected 0 arguments.", st1)
          [] ~initializer.found /\ arg_vals = <<>> -> Ok(instance, st1)
          [] initializer.found /\ ~arity ->
                Err("Expected a different number of arguments.", bound_init.st)
          [] arity /\ result.k \in {"Ok", "Return"} -> Ok(instance, result.st)
          [] arity /\ result.k \notin {"Ok", "Return"} -> result

\* std_lib::globals::import
import(args, st) ==
    CASE Len(args) # 1 -> Err("import() takes exactly 1 argument.", st)
      [] Len(args) = 1 /\ args[1].t = "String" -> import_module(args[1].s, st)
      [] Len(args) = 1 /\ args[1].t # "String" ->
            Err("Type error: Import path must be a string.", st)

evaluate(expr, st) ==
    CASE expr.k = "Number" -> Ok(Number(expr.value), st)
      [] expr.k = "String" -> Ok(String(expr.value), st)
      [] expr.k = "Boolean" -> Ok(Boolean(expr.value), st)
      [] expr.k = "Nil" -> Ok(Nil, st)
      [] expr.k = "Variable" -> look_up_variable(expr.name, expr.id, st)
      [] expr.k = "Assign" ->
            LET v == dispatch("evaluate", << expr.expr, st >>)
            IN  IF v.k # "Ok" THEN v
                ELSE IF Has(v.st.locals, expr.id.n)
                THEN LET distance == v.st.locals[expr.id.n]
                         a == assign_at(v.st.envs, v.st.environment, distance,
                                        expr.name, v.val)
                         st1 == Log(v.st, [ev |-> "local", id |-> expr.id,
                                     name |-> expr.name, distance |-> distance,
                                     r |-> get_at(v.st.envs, v.st.environment,
                                                  distance, expr.name).r])
                     IN  IF a.r = "noparent" THEN Panic(st1)
                         ELSE Assigned(Ok(v.val, [st1 EXCEPT !.envs = a.envs]),
                                       v.st, expr)
                ELSE LET a == assign(v.st.envs, v.st.globals, expr.name, v.val)
                         st1 == GlobalAccess(v.st, "write", expr.name, expr.id)
                     IN  IF a.ok
                         THEN Assigned(Ok(v.val, [st1 EXCEPT !.envs = a.envs]),
                                       v.st, expr)
                         ELSE Assigned(Err(UndefinedVariable(expr.name), st1),
                                       v.st, expr)
      [] expr.k = "AssignOp" ->
            LET current_val == look_up_variable(expr.name, expr.id, st)
            IN  IF current_val.k # "Ok" THEN current_val
                ELSE LET right_val == dispatch("evaluate", << expr.expr, current_val.st >>)
                     IN  IF right_val.k # "Ok" THEN right_val
                         ELSE IF expr.op # "Add"
                         THEN OpAssigned(Err("Invalid assign op", right_val.st),
                                         expr, current_val.val, right_val.val)
                         ELSE LET new_val == add_values(current_val.val,
                                                right_val.val, right_val.st)
                                  s1 == new_val.st
                              IN  IF new_val.k # "Ok" THEN new_val
                                  ELSE IF Has(s1.locals, expr.id.n)
                                  THEN LET a == assign_at(s1.envs, s1.environment,
                                                  s1.locals[expr.id.n], expr.name,
                                                  new_val.val)
                                       IN  IF a.r = "noparent" THEN Panic(s1)
                                           ELSE OpAssigned(
                                                    Ok(new_val.val,
                                                       [s1 EXCEPT !.envs = a.envs]),
                                                    expr, current_val.val,
                                                    right_val.val)
                                  ELSE LET a == assign(s1.envs, s1.globals,
                                                       expr.name, new_val.val)
                                       IN  OpAssigned(
                                               Ok(new_val.val,
                                                  [GlobalAccess(s1, "write", expr.name, expr.id)
                                                     EXCEPT !.envs = a.envs]),
                                               expr, current_val.val, right_val.val)
      [] expr.k = "List" ->
            LET elements == evaluate_elements(expr.elements, st)
            IN  IF elements.k # "Ok" THEN elements
                ELSE Ok(ListRef(Len(elements.st.objs) + 1),
                        NewObj(elements.st, RoxList(elements.val)))
      [] expr.k = "GetIndex" ->
            LET xs == evaluate_elements(<< expr.object, expr.index >>, st)
            IN  IF xs.k # "Ok" THEN xs
                ELSE get_index(xs.val[1], xs.val[2], xs.st)
      [] expr.k = "SetIndex" ->
            LET xs == evaluate_elements(<< expr.object, expr.index,
                                           expr.value >>, st)
            IN  IF xs.k # "Ok" THEN xs
                ELSE set_index(xs.val[1], xs.val[2], xs.val[3], xs.st)
      [] expr.k = "Binary" ->
            LET l == dispatch("evaluate", << expr.left, st >>)
            IN  IF l.k # "Ok" THEN l
                ELSE LET r == dispatch("evaluate", << expr.right, l.st >>)
                     IN  IF r.k # "Ok" THEN r
                         ELSE binary_op(expr.op, l.val, r.val, r.st)
      [] expr.k = "Call" ->
            (LET callee_value == dispatch("evaluate", << expr.callee, st >>)
                 arg_vals == Arguments(
                                 evaluate_elements(expr.args, callee_value.st), 1)
                c == callee_value.val
                ready == callee_value.k = "Ok" /\ arg_vals.k = "Ok"
                native == ready /\ c.t = "NativeFunction"
                                /\ Len(arg_vals.val) = c.arity
            IN  CASE callee_value.k # "Ok" -> callee_value
                  [] callee_value.k = "Ok" /\ arg_vals.k # "Ok" -> arg_vals
                  [] ready /\ c.t = "Function" ->
                        call_function(c, expr.args, arg_vals.val, arg_vals.st)
                  [] ready /\ c.t = "Class" ->
                        call_class(c, arg_vals.val, arg_vals.st)
                  [] ready /\ c.t = "NativeFunction"
                           /\ Len(arg_vals.val) # c.arity ->
                        Err("Expected a different number of arguments.",
                            arg_vals.st)
                  [] native /\ c.name = "import" ->
                        import(arg_vals.val, arg_vals.st)
                  [] native /\ c.name = "clock" -> Ok(Number(0), arg_vals.st)
                  [] native /\ c.name \notin {"import", "clock"} ->
                        Ok(String(""), arg_vals.st)
                  [] ready /\ c.t \notin {"Function", "Class", "NativeFunction"} ->
                        Err("Type error: Can only call functions", arg_vals.st))
      [] expr.k = "This" -> look_up_variable("this", expr.id, st)
      [] expr.k = "Lambda" ->
            Ok(Function("<anonymous>", expr.params, expr.body, st.environment), st)
      [] expr.k = "Get" ->
            LET obj == dispatch("evaluate", << expr.object, st >>)
                o == obj.val
                s1 == obj.st
            IN  IF obj.k # "Ok" THEN obj
                ELSE IF o.t = "Instance"
                THEN IF Has(s1.objs[o.ref].fields, expr.name)
                     THEN Ok(s1.objs[o.ref].fields[expr.name], s1)
                     ELSE LET m == find_method(s1.objs, s1.objs[o.ref].class,
                                               expr.name)
                          IN  IF m.found
                              THEN LET b == bind(m.method, o, s1)
                                   IN  Ok(b.val, b.st)
                              ELSE Err("Undefined property '" \o expr.name \o "'.", s1)
                ELSE IF o.t = "Module"
                THEN IF Has(s1.objs[o.ref].exports, expr.name)
                     THEN Ok(s1.objs[o.ref].exports[expr.name], s1)
                     ELSE IF ~s1.objs[o.ref].is_initialized
                     THEN Err("Accessing variable '" \o expr.name
                              \o "' before it is fully initialized. (Circular Dependency detected)", s1)
                     ELSE Err("Module has no export '" \o expr.name \o "'.", s1)
                ELSE IF o.t = "String"
                THEN Err("String has no property '" \o expr.name \o "'.", s1)
                ELSE IF o.t = "Dict"
                THEN Err("Dict has no property '" \o expr.name \o "'.", s1)
                ELSE Err("Type error: Only instances have properties.", s1)
      [] expr.k = "Set" ->
            LET obj == dispatch("evaluate", << expr.object, st >>)
            IN  IF obj.k # "Ok" THEN obj
                ELSE IF obj.val.t = "Instance"
                THEN LET val == dispatch("evaluate", << expr.value, obj.st >>)
                     IN  IF val.k # "Ok" THEN val
                         ELSE Ok(val.val,
                                 [val.st EXCEPT !.objs[obj.val.ref].fields =
                                     Put(@, expr.name, val.val)])
                ELSE Err("Type error: Only instances have fields.", obj.st)
      [] expr.k = "Super" ->
            IF ~Has(st.locals, expr.id.n) THEN Panic(st)
            ELSE LET distance == st.locals[expr.id.n]
                     superclass == super_at(st, distance)
                     instance == IF distance = 0 THEN [r |-> "noparent"]
                                 ELSE get_at(st.envs, st.environment,
                                             distance - 1, "this")
                     st0 == Log(st, [ev |-> "local", id |-> expr.id,
                                     name |-> "super", distance |-> distance,
                                     r |-> superclass.r])
                     st1 == Log(st0, [ev |-> "super", method |-> expr.method,
                                      env |-> st.environment,
                                      superclass |-> superclass,
                                      instance |-> instance])
                 IN  IF superclass.r # "hit" \/ instance.r # "hit" THEN Panic(st1)
                     ELSE IF superclass.val.t # "Class" THEN Panic(st1)
                     ELSE LET m == find_method(st1.objs, superclass.val.ref,
                                               expr.method)
                          IN  IF m.found
                              THEN LET b == bind(m.method, instance.val, st1)
                                   IN  Ok(b.val, b.st)
                              ELSE Err(UndefinedVariable("Undefined property '"
                                         \o expr.method \o "'."), st1)

\* the statements of a body in order, stopping at the first Err
execute_stmts(statements, st) ==
    LET r == dispatch("execute", << Head(statements), st >>)
    IN  CASE statements = <<>> -> Ok(Nil, st)
          [] statements # <<>> /\ r.k # "Ok" -> r
          [] statements # <<>> /\ r.k = "Ok" ->
                execute_stmts(Tail(statements), r.st)

\* a block that puts the environment back only when the body ends normally
restore_on_success_only(previous, result) ==
    IF result.k = "Ok" THEN previous ELSE result.st.environment

\* the environment execute_block puts back once the body has a result
restore_environment(previous, result) == previous

\* who is "block" for a block statement, "call" for a function or method
\* body and "init" for an initializer body
execute_block(statements, new_env, who, st) ==
    LET previous == st.environment
        st1 == NewEnv(st, new_env)
        result == execute_stmts(statements,
                                [st1 EXCEPT !.environment = Len(st1.envs)])
        st2 == [result.st EXCEPT
                   !.environment = restore_environment(previous, result)]
        returned == [result EXCEPT !.st = st2]
    IN  IF result.k \in Stops THEN result
        ELSE [returned EXCEPT !.st =
                 Log(st2, [ev |-> "block", who |-> who, previous |-> previous,
                           after |-> st2.environment,
                           body |-> <<result.k, result.val>>,
                           returned |-> <<returned.k, returned.val>>])]

\* one more iteration of a loop in this run
Iterate(st) == [st EXCEPT !.iterations = @ + 1]

while_loop(stmt, st) ==
    LET c == dispatch("evaluate", << stmt.condition, st >>)
        again == c.k = "Ok" /\ is_truthy(c.val)
        runs == again /\ c.st.iterations < MaxIterations
        b == dispatch("execute", << stmt.body, Iterate(c.st) >>)
    IN  CASE c.k # "Ok" -> c
          [] c.k = "Ok" /\ ~is_truthy(c.val) -> Ok(Nil, c.st)
          [] again /\ c.st.iterations >= MaxIterations -> Hang(c.st)
          [] runs /\ b.k \in {"Ok", "Continue"} -> while_loop(stmt, b.st)
          [] runs /\ b.k = "Break" -> Ok(Nil, b.st)
          [] runs /\ b.k \notin {"Ok", "Continue", "Break"} -> b

\* the closure of the For arm: condition, body, increment, again
\* history of one step of a `for` loop (its condition, body or increment)
\* that ended with r; the loop is known by its header environment
Looped(r, step, stmt, loop) ==
    [r EXCEPT !.st =
        Log(r.st, [ev |-> "for", step |-> step, loop |-> loop, res |-> r.k,
                   has_condition |-> stmt.condition # NoneX,
                   has_increment |-> stmt.increment # NoneX])]

break_on_continue(k) ==
    CASE k \in {"Break", "Continue"} -> "break"
      [] k = "Ok" -> "increment"
      [] OTHER -> "return"

\* match self.execute(body): leave the loop, go on to the increment, or
\* return the error
after_body(k) ==
    CASE k = "Break" -> "break"
      [] k \in {"Ok", "Continue"} -> "increment"
      [] OTHER -> "return"

for_loop(stmt, st) ==
    LET loop == st.environment
        c == IF stmt.condition = NoneX THEN Ok(Boolean(TRUE), st)
             ELSE Looped(dispatch("evaluate", << stmt.condition, st >>),
                         "condition", stmt, loop)
        again == c.k = "Ok" /\ is_truthy(c.val)
        runs == again /\ c.st.iterations < MaxIterations
        b == Looped(dispatch("execute", << stmt.body, Iterate(c.st) >>),
                    "body", stmt, loop)
        then == after_body(b.k)
        goes_on == runs /\ then = "increment"
        n == IF stmt.increment = NoneX THEN Ok(Nil, b.st)
             ELSE Looped(dispatch("evaluate", << stmt.increment, b.st >>),
                         "increment", stmt, loop)
    IN  CASE c.k # "Ok" -> c
          [] c.k = "Ok" /\ ~is_truthy(c.val) -> Ok(Nil, c.st)
          [] again /\ c.st.iterations >= MaxIterations -> Hang(c.st)
          [] runs /\ then = "break" -> Ok(Nil, b.st)
          [] runs /\ then = "return" -> b
          [] goes_on /\ n.k # "Ok" -> n
          [] goes_on /\ n.k = "Ok" -> for_loop(stmt, n.st)

\* history of the end of a top-level statement list (of `interpret` or of a
\* module body): what its last statement handed up
Topped(r, at) ==
    IF r.k \in Stops THEN r
    ELSE [r EXCEPT !.st = Log(r.st, [ev |-> "top", at |-> at, res |-> r.k])]

\* the Value::Function of a method declaration, closed over env
method_map(methods, env) ==
    [n \in {methods[i].name : i \in DOMAIN methods} |->
        LET i == CHOOSE i \in DOMAIN methods :
                    methods[i].name = n
                    /\ \A j \in DOMAIN methods : methods[j].name = n => j <= i
        IN  Function(n, methods[i].params, methods[i].body, env)]

\* println!("{}", value): what reaches stdout for a value
Display(value) ==
    CASE value.t = "Function" -> [t |-> "Function", name |-> value.name]
      [] OTHER -> value

execute(stmt, st) ==
    LET before == st.environment
        r == CASE stmt.k = "Expression" ->
                     LET v == dispatch("evaluate", << stmt.expr, st >>)
                     IN  IF v.k # "Ok" THEN v ELSE Ok(Nil, v.st)
               [] stmt.k = "Print" ->
                     LET v == dispatch("evaluate", << stmt.expr, st >>)
                     IN  IF v.k # "Ok" THEN v
                         ELSE Ok(Nil, [v.st EXCEPT !.out = Append(@, Display(v.val))])
               [] stmt.k = "VarDecl" ->
                     LET v == IF stmt.initializer = NoneX THEN Ok(Nil, st)
                              ELSE dispatch("evaluate", << stmt.initializer, st >>)
                     IN  IF v.k # "Ok" THEN v
                         ELSE Ok(Nil, [v.st EXCEPT !.envs =
                                 define(@, v.st.environment, stmt.name, v.val)])
               [] stmt.k = "Block" ->
                     execute_block(stmt.body, with_enclosing(st.environment),
                                   "block", st)
               [] stmt.k = "If" ->
                     LET c == dispatch("evaluate", << stmt.condition, st >>)
                     IN  IF c.k # "Ok" THEN c
                         ELSE IF is_truthy(c.val) THEN dispatch("execute", << stmt.then_branch, c.st >>)
                         ELSE IF stmt.else_branch # NoneX
                         THEN dispatch("execute", << stmt.else_branch, c.st >>)
                         ELSE Ok(Nil, c.st)
               [] stmt.k = "Try" ->
                     LET t == dispatch("execute", << stmt.try_branch, st >>)
                         tried == [ev |-> "try", tried |-> <<t.k, t.val>>,
                                   envs |-> Len(t.st.envs)]
                     IN  IF t.k \in Stops THEN t
                         ELSE IF t.k = "Ok" \/ IsControlFlow(t)
                         THEN [t EXCEPT !.st =
                                 Log(t.st, tried @@
                                     [caught |-> FALSE, catch_env |-> 0,
                                      scope |-> Environment_new,
                                      res |-> <<t.k, t.val>>])]
                         ELSE LET previous == t.st.environment
                                  s1 == NewEnv(t.st,
                                          [values |-> (stmt.catch_var :> t.val),
                                           enclosing |-> previous])
                                  result == dispatch("execute", << stmt.catch_branch,
                                              [s1 EXCEPT !.environment = Len(s1.envs)] >>)
                              IN  IF result.k \in Stops THEN result
                                  ELSE [result EXCEPT !.st =
                                          Log([result.st EXCEPT
                                                 !.environment = previous],
                                              tried @@
                                              [caught |-> TRUE,
                                               catch_env |-> Len(s1.envs),
                                               scope |-> s1.envs[Len(s1.envs)],
                                               res |-> <<result.k, result.val>>])]
               [] stmt.k = "While" -> while_loop(stmt, st)
               [] stmt.k = "For" ->
                     LET previous_env == st.environment
                         s1 == NewEnv(st, with_enclosing(previous_env))
                         s2 == [s1 EXCEPT !.environment = Len(s1.envs)]
                         i == IF stmt.initializer = NoneX THEN Ok(Nil, s2)
                              ELSE dispatch("execute", << stmt.initializer, s2 >>)
                     IN  IF i.k # "Ok" THEN i
                         ELSE LET result == for_loop(stmt, i.st)
                              IN  IF result.k \in Stops THEN result
                                  ELSE [result EXCEPT !.st.environment = previous_env]
               [] stmt.k = "Function" ->
                     Ok(Nil, [st EXCEPT !.envs =
                         define(@, st.environment, stmt.name,
                                Function(stmt.name, stmt.params, stmt.body,
                                         st.environment))])
               [] stmt.k = "Class" ->
                     LET sup == IF stmt.superclass = NoneX THEN Ok(Nil, st)
                                ELSE dispatch("evaluate", << stmt.superclass, st >>)
                         has_super == stmt.superclass # NoneX
                     IN  IF sup.k # "Ok" THEN sup
                         ELSE IF has_super /\ sup.val.t # "Class"
                         THEN Err("Type error: Superclass must be a class.", sup.st)
                         ELSE LET s1 == IF has_super
                                        THEN [NewEnv(sup.st,
                                                [values |-> ("super" :> sup.val),
                                                 enclosing |-> sup.st.environment])
                                              EXCEPT !.environment =
                                                  Len(sup.st.envs) + 1]
                                        ELSE sup.st
                                  klass == RoxClass(stmt.name,
                                              method_map(stmt.methods, s1.environment),
                                              IF has_super THEN sup.val.ref ELSE 0)
                                  s2 == NewObj(s1, klass)
                                  s3 == IF has_super
                                        THEN [s2 EXCEPT !.environment =
                                                 s2.envs[s2.environment].enclosing]
                                        ELSE s2
                              IN  Ok(Nil, [s3 EXCEPT !.envs =
                                      define(@, s3.environment, stmt.name,
                                             ClassRef(Len(s3.objs)))])
               [] stmt.k = "Return" ->
                     LET v == IF stmt.value = NoneX THEN Ok(Nil, st)
                              ELSE dispatch("evaluate", << stmt.value, st >>)
                     IN  IF v.k # "Ok" THEN v ELSE Signal("Return", v.val, v.st)
               [] stmt.k = "Break" -> Signal("Break", Nil, st)
               [] stmt.k = "Continue" -> Signal("Continue", Nil, st)
               [] stmt.k = "Export" ->
                     LET d == dispatch("execute", << stmt.stmt, st >>)
                     IN  IF d.k # "Ok" THEN d
                         ELSE IF stmt.stmt.k \notin {"VarDecl", "Function", "Class"}
                         THEN Panic(d.st)
                         ELSE
                         LET s1 == Log(d.st, [ev |-> "export",
                                              name |-> stmt.stmt.name,
                                              globals |-> d.st.globals])
                         IN  IF s1.exports_stack = <<>> THEN Ok(Nil, s1)
                             ELSE Ok(Nil,
                                     [s1 EXCEPT
                                        !.exports_stack[Len(s1.exports_stack)] =
                                            @ \cup {stmt.stmt.name}])
               [] stmt.k = "Empty" -> Ok(Nil, st)
    IN  IF r.k \in Stops THEN r
        ELSE [r EXCEPT !.st = Log(r.st, [ev |-> "stmt", kind |-> stmt.k,
                                        before |-> before,
                                        after |-> r.st.environment,
                                        res |-> r.k])]

\* a removal that leaves the map as it was
keep_entry(f, k) == f

\* HashMap::remove
Remove(f, k) == [x \in DOMAIN f \ {k} |-> f[x]]

\* anchor (top of the path stack, else the working directory) joined with
\* the import path, then canonicalized; fails when nothing is there
resolve_path(import_path, st) ==
    LET anchor == IF st.path_stack # <<>> THEN Last(st.path_stack) ELSE Cwd
        joined_path == anchor \o "/" \o import_path
    IN  IF Has(Canonical, joined_path)
        THEN [ok |-> TRUE, path |-> Canonical[joined_path]]
        ELSE [ok |-> FALSE]

\* what the loader cache and the handle look like for a path
ModuleSnapshot(st, path_key, module_value) ==
    [cached |-> Has(st.modules, path_key),
     same |-> Has(st.modules, path_key) /\ st.modules[path_key] = module_value,
     is_initialized |-> st.objs[module_value.ref].is_initialized,
     exports |-> DOMAIN st.objs[module_value.ref].exports]

\* the exports filled in after the body: the exported names that are bound
\* in the current environment, with their values there
filled_exports(exported_names, values) ==
    [n \in {x \in exported_names : Has(values, x)} |-> values[n]]

\* a loader that marks the handle initialised whatever the body did
marks_initialized_always(exec_res) == exec_res.k \notin Stops

\* whether the loader marks the handle initialised for this body result
marks_initialized(exec_res) == exec_res.k = "Ok"

\* step 7 of import_module: the closure that compiles and runs the module
run_module(path_key, module_value, file, st) ==
    LET ast == parse(file.text, path_key)
        parsed == file.scans /\ ast.ok
        s1 == NewEnv(st, init_globals(Environment_new))
        module_env == Len(s1.envs)
        previous_globals == st.globals
        previous_env == st.environment
        s2 == [s1 EXCEPT !.globals = module_env,
                         !.environment = module_env]
        res == resolve_stmts(ast.ast, Resolver_new(s2.locals))
        s3 == [s2 EXCEPT !.locals = res.rs.locals]
        resolved == parsed /\ res.ok
        body ==
           execute_stmts(ast.ast,
               Log(s3, [ev |-> "body_start", path |-> path_key,
                        ref |-> module_value.ref,
                        env |-> module_env,
                        snap |-> ModuleSnapshot(s3, path_key,
                                                module_value)]))
        exec_res == Topped(body, "module")
        s4 == exec_res.st
        s5 == IF marks_initialized(exec_res)
              THEN Log([s4 EXCEPT
                         !.objs[module_value.ref].exports =
                             filled_exports(Last(s4.exports_stack),
                                 s4.envs[s4.environment].values) @@ @,
                         !.objs[module_value.ref].is_initialized = TRUE],
                       [ev |-> "initialized", path |-> path_key,
                        ref |-> module_value.ref,
                        exports |-> filled_exports(
                            Last(s4.exports_stack),
                            s4.envs[s4.environment].values),
                        values |-> s4.envs[module_env].values,
                        body |-> exec_res.k])
              ELSE s4
        s6 == [s5 EXCEPT !.globals = previous_globals,
                         !.environment = previous_env,
                         !.exports_stack = Front(@)]
    IN  CASE ~file.scans -> Err("Scan error in '" \o path_key \o "'", st)
          [] file.scans /\ ~ast.ok ->
                Err("Parse error in '" \o path_key \o "'", st)
          [] parsed /\ ~res.ok ->
                Err("Resolution error in '" \o path_key \o "'",
                    [s3 EXCEPT !.globals = previous_globals,
                               !.environment = previous_env])
          [] resolved /\ body.k \in Stops -> body
          [] resolved /\ body.k \notin Stops -> [exec_res EXCEPT !.st = s6]

\* the evaluator's globals / current-environment pair and the depths of its
\* path stack and exports-name stack
Frame(st) ==
    [globals |-> st.globals, environment |-> st.environment,
     path_stack |-> Len(st.path_stack), exports_stack |-> Len(st.exports_stack)]

\* the observation of one import_module call as it returns; start holds the
\* length of the log and the frame when the call began
ImportEvent(st, start, import_path, path_key, cached, res, ref) ==
    Log(st, [ev |-> "import", start |-> start.at, arg |-> import_path,
             before |-> start.frame, after |-> Frame(st),
             path |-> path_key, cached |-> cached, res |-> res, ref |-> ref,
             in_cache |-> Has(st.modules, path_key),
             is_initialized |-> IF ref = 0 THEN FALSE
                                ELSE st.objs[ref].is_initialized,
             exports |-> IF ref = 0 THEN {} ELSE DOMAIN st.objs[ref].exports])

\* a cache hit that hands out the module created last, whatever the path
newest_module(cache, path_key) ==
    cache[CHOOSE k \in DOMAIN cache :
            \A j \in DOMAIN cache : cache[k].ref >= cache[j].ref]

\* step 2 of import_module: the clone of the cached handle
cached_module(cache, path_key) == cache[path_key]

import_module(import_path, st) ==
    LET p == resolve_path(import_path, st)
        path_key == p.path
        start == [at |-> Len(st.trace), frame |-> Frame(st)]
        cached == p.ok /\ Has(st.modules, path_key)
        fresh == p.ok /\ ~Has(st.modules, path_key)
        s1 == [st EXCEPT !.exports_stack = Append(@, {})]
        loads == fresh /\ Files[path_key].readable
        s2 == NewObj(Log(s1, [ev |-> "read", path |-> path_key]),
                     RoxModule(path_key))
        module_value == ModuleRef(Len(s2.objs))
        s3 == [s2 EXCEPT !.modules = Put(@, path_key, module_value),
                         !.path_stack = Append(@, Files[path_key].dir)]
        result == run_module(path_key, module_value, Files[path_key], s3)
        s4 == [result.st EXCEPT !.path_stack = Front(@)]
    IN  CASE ~p.ok ->
                Err("Cannot find module '" \o import_path \o "'",
                    ImportEvent(st, start, import_path, "", FALSE, "Err", 0))
          [] cached ->
                Ok(cached_module(st.modules, path_key),
                   ImportEvent(st, start, import_path, path_key, TRUE, "Ok",
                               cached_module(st.modules, path_key).ref))
          [] fresh /\ ~Files[path_key].readable ->
                Err("Failed to read module '" \o path_key \o "'",
                    ImportEvent(s1, start, import_path, path_key, FALSE, "Err", 0))
          [] loads /\ result.k \in Stops -> result
          [] loads /\ result.k = "Ok" ->
                Ok(module_value,
                   ImportEvent(s4, start, import_path, path_key, FALSE, "Ok",
                               module_value.ref))
          [] loads /\ result.k \notin Stops \cup {"Ok"} ->
                [result EXCEPT !.st =
                    ImportEvent([s4 EXCEPT !.modules = Remove(@, path_key)],
                                start, import_path, path_key, FALSE, result.k,
                                module_value.ref)]

\* Interpreter::interpret: a control-flow signal at the top is a panic!
interpret(body, st) ==
    LET result == execute_stmts(body, st)
        r == Topped(result, "interpret")
    IN  CASE result.k \in Stops -> result
          [] IsControlFlow(r) -> Panic(r.st)
          [] OTHER -> r

\* main.rs: tokenize, parse, resolve into the side table, interpret
run_interpreter_with_state(source, st) ==
    IF ~source.scans
    THEN Err("scan", Log(st, [ev |-> "front", name |-> source.name,
                              stage |-> "scan"]))
    ELSE LET ast == parse(source.text, source.name)
         IN  IF ~ast.ok
             THEN Err("parse", Log(st, [ev |-> "front", name |-> source.name,
                                        stage |-> "parse"]))
             ELSE LET res == resolve_stmts(ast.ast, Resolver_new(st.locals))
                      s1 == [st EXCEPT !.locals = res.rs.locals]
                  IN  IF ~res.ok
                      THEN Err("Resolution Error",
                               Log(s1, [ev |-> "front", name |-> source.name,
                                        stage |-> "resolve"]))
                      ELSE interpret(ast.ast,
                               Log(s1, [ev |-> "front", name |-> source.name,
                                        stage |-> "run"]))

\* run_file: the script's directory is on the path stack while it runs
run_file(source, st) ==
    LET r == run_interpreter_with_state(source,
                 [st EXCEPT !.path_stack = Append(@, Cwd)])
    IN  IF r.k \in Stops \/ r.st.path_stack = <<>> THEN r
        ELSE [r EXCEPT !.st.path_stack = Front(@)]

\* the functions of the program by name
dispatch(name, args) ==
    CASE name = "ParseExpr" -> ParseExpr(args[1], args[2])
      [] name = "ParseStmt" -> ParseStmt(args[1], args[2])
      [] name = "resolve_stmt" -> resolve_stmt(args[1], args[2])
      [] name = "resolve_expr" -> resolve_expr(args[1], args[2])
      [] name = "evaluate" -> evaluate(args[1], args[2])
      [] name = "execute" -> execute(args[1], args[2])
      [] name = "interpret" -> interpret(args[1], args[2])
      [] name = "run_interpreter_with_state" ->
            run_interpreter_with_state(args[1], args[2])
      [] name = "run_file" -> run_file(args[1], args[2])

(***************************************************************************)
(* The sources fed to the interpreter: script files of the working         *)
(* directory, which are also the lines typed at the REPL.                  *)
(***************************************************************************)
Source(name, text) == [name |-> name, scans |-> TRUE, text |-> text]

\* for (var i = nope;;) {}
ForInitError ==
    Source("for_init_error",
        << For(VarDecl("i", Var("nope")), NoneX, NoneX, Block(<<>>)) >>)

\* tests/function_and_scope.rs, test_resolver_shadowing, then print res;
Shadowing ==
    Source("shadowing",
        << VarDecl("a", Str("global")), VarDecl("res", Str("")),
           Block(<< Fun("showA", <<>>, << Return(Var("a")) >>),
                    VarDecl("a", Str("block")),
                    ExprS(Asg("res", Call(Var("showA"), <<>>))) >>),
           PrintS(Var("res")) >>)

MakeCounter ==
    Fun("makeCounter", <<>>,
        << VarDecl("i", Num(0)),
           Fun("count", <<>>,
               << ExprS(Asg("i", Bin(Var("i"), "Add", Num(1)))),
                  Return(Var("i")) >>),
           Return(Var("count")) >>)

\* tests/function_and_scope.rs, test_closure, printing both results
Counter ==
    Source("counter",
        << MakeCounter, VarDecl("counter", Call(Var("makeCounter"), <<>>)),
           PrintS(Call(Var("counter"), <<>>)),
           PrintS(Call(Var("counter"), <<>>)) >>)

\* the counter again, with an import between its two calls
CounterImport ==
    Source("counter_import",
        << MakeCounter, VarDecl("counter", Call(Var("makeCounter"), <<>>)),
           PrintS(Call(Var("counter"), <<>>)),
           ExprS(Import("locals.rox")),
           PrintS(Call(Var("counter"), <<>>)) >>)

\* { var t = 0; { t; t; t; t; } }
Nested ==
    Source("nested",
        << Block(<< VarDecl("t", Num(0)),
                    Block(<< ExprS(Var("t")), ExprS(Var("t")),
                             ExprS(Var("t")), ExprS(Var("t")) >>) >>) >>)

\* var b = 2; print b;
GlobalRead == Source("global_read", << VarDecl("b", Num(2)), PrintS(Var("b")) >>)

\* var n = 100; var m = import("counter.rox"); print m.bump(); print n;
ImportCounter ==
    Source("import_counter",
        << VarDecl("n", Num(100)), VarDecl("m", Import("counter.rox")),
           PrintS(Call(Get(Var("m"), "bump"), <<>>)), PrintS(Var("n")) >>)

\* var a = "importer"; var m = import("shadow.rox"); print m.show();
ImportShadow ==
    Source("import_shadow",
        << VarDecl("a", Str("importer")), VarDecl("m", Import("shadow.rox")),
           PrintS(Call(Get(Var("m"), "show"), <<>>)) >>)

\* var a = import("a.rox"); print a.b.a.x; print a.b.y;
Cycle ==
    Source("cycle",
        << VarDecl("a", Import("a.rox")),
           PrintS(Get(Get(Get(Var("a"), "b"), "a"), "x")),
           PrintS(Get(Get(Var("a"), "b"), "y")) >>)

\* var u = import("lib/util.rox"); var a = import("a.rox"); print u.a.x;
CycleLib ==
    Source("cycle_lib",
        << VarDecl("u", Import("lib/util.rox")), VarDecl("a", Import("a.rox")),
           PrintS(Get(Get(Var("u"), "a"), "x")) >>)

\* try { import("selfish.rox"); } catch (e) {}   twice
Selfish ==
    Source("selfish",
        << Try(<< ExprS(Import("selfish.rox")) >>, "e", <<>>),
           Try(<< ExprS(Import("selfish.rox")) >>, "e", <<>>) >>)

\* var i = 0; while (i < 1) { fun f() { break; } i = i + 1; f(); }
BreakInFunction ==
    Source("break_in_function",
        << VarDecl("i", Num(0)),
           While(Bin(Var("i"), "Less", Num(1)),
               Block(<< Fun("f", <<>>, << Break >>),
                        ExprS(Asg("i", Bin(Var("i"), "Add", Num(1)))),
                        ExprS(Call(Var("f"), <<>>)) >>)) >>)

\* fun g() { while (true) { break; } return 1; }
\* var i = 0; while (i < 2) { i = i + g(); } print i;
LoopCall ==
    Source("loop_call",
        << Fun("g", <<>>,
               << While(Bool(TRUE), Block(<< Break >>)), Return(Num(1)) >>),
           VarDecl("i", Num(0)),
           While(Bin(Var("i"), "Less", Num(2)),
               Block(<< ExprS(Asg("i", Bin(Var("i"), "Add",
                                           Call(Var("g"), <<>>)))) >>)),
           PrintS(Var("i")) >>)

\* class A { init() { this.v = 1; } get() { return this.v; } }
\* class B < A { get() { return super.get(); } }   print B().get();
Classes ==
    Source("classes",
        << Class("A", NoneX,
               << Fun("init", <<>>, << ExprS(SetP(This, "v", Num(1))) >>),
                  Fun("get", <<>>, << Return(Get(This, "v")) >>) >>),
           Class("B", Var("A"),
               << Fun("get", <<>>,
                      << Return(Call(Super("get"), <<>>)) >>) >>),
           PrintS(Call(Get(Call(Var("B"), <<>>), "get"), <<>>)) >>)

\* class A { method() { print "A"; return this; } }
\* class B < A { method() { print "B"; return this; }
\*               test() { return super.method(); } }
\* class C < B {}
\* var c = C(); var res = c.test();
SuperChain ==
    Source("super_chain",
        << Class("A", NoneX,
               << Fun("method", <<>>,
                      << PrintS(Str("A")), Return(This) >>) >>),
           Class("B", Var("A"),
               << Fun("method", <<>>,
                      << PrintS(Str("B")), Return(This) >>),
                  Fun("test", <<>>,
                      << Return(Call(Super("method"), <<>>)) >>) >>),
           Class("C", Var("B"), <<>>),
           VarDecl("c", Call(Var("C"), <<>>)),
           VarDecl("res", Call(Get(Var("c"), "test"), <<>>)) >>)

\* a later line at the prompt:
\* { var t = 0; t; t; t; t; } c.test();
CallSuperLater ==
    Source("call_super_later",
        << Block(<< VarDecl("t", Num(0)), ExprS(Var("t")), ExprS(Var("t")),
                    ExprS(Var("t")), ExprS(Var("t")) >>),
           ExprS(Call(Get(Var("c"), "test"), <<>>)) >>)

\* a line the scanner rejects
BadScan == [name |-> "bad_scan", scans |-> FALSE, text |-> <<>>]

\* imports that fail, each one caught
Failures ==
    Source("failures",
        << Try(<< ExprS(Import("missing.rox")) >>, "e", <<>>),
           Try(<< ExprS(Import("broken.rox")) >>, "e", <<>>),
           Try(<< ExprS(Import("badscan.rox")) >>, "e", <<>>),
           Try(<< ExprS(Import("badparse.rox")) >>, "e", <<>>),
           Try(<< ExprS(Import("badresolve.rox")) >>, "e", <<>>),
           Try(<< ExprS(Import("c.rox")) >>, "e", <<>>) >>)

\* { if (false) var a = 1; print a; }
ConditionalDecl ==
    Source("conditional_decl",
        << Block(<< If(Bool(FALSE), VarDecl("a", Num(1)), NoneX),
                    PrintS(Var("a")) >>) >>)

\* fun early() { try { return 7; } catch (e) { return 0; } return 1; }
\* print early();
\* var i = 0;
\* while (i < 3) {
\*   i = i + 1;
\*   try { if (i == 1) continue; if (i == 2) break; } catch (e) { i = 10; }
\*   i = 20;
\* }
\* print i;
\* try { nope; } catch (e) { i = 5; }
\* print i;
TrySignals ==
    Source("try_signals",
        << Fun("early", <<>>,
               << Try(<< Return(Num(7)) >>, "e", << Return(Num(0)) >>),
                  Return(Num(1)) >>),
           PrintS(Call(Var("early"), <<>>)),
           VarDecl("i", Num(0)),
           While(Bin(Var("i"), "Less", Num(3)),
               Block(<< ExprS(Asg("i", Bin(Var("i"), "Add", Num(1)))),
                        Try(<< If(Bin(Var("i"), "Equal", Num(1)), Continue, NoneX),
                               If(Bin(Var("i"), "Equal", Num(2)), Break, NoneX) >>,
                            "e", << ExprS(Asg("i", Num(10))) >>),
                        ExprS(Asg("i", Num(20))) >>)),
           PrintS(Var("i")),
           Try(<< ExprS(Var("nope")) >>, "e", << ExprS(Asg("i", Num(5))) >>),
           PrintS(Var("i")) >>)

\* { var a = 1; var a = 2; }
DupBlock ==
    Source("dup_block", << Block(<< VarDecl("a", Num(1)), VarDecl("a", Num(2)) >>) >>)

\* fun f(a) { var a = 1; }
DupParam ==
    Source("dup_param", << Fun("f", <<"a">>, << VarDecl("a", Num(1)) >>) >>)

\* for (var i = 0; i < 1; i = i + 1) var i = 2;
DupFor ==
    Source("dup_for",
        << For(VarDecl("i", Num(0)), Bin(Var("i"), "Less", Num(1)),
               Asg("i", Bin(Var("i"), "Add", Num(1))), VarDecl("i", Num(2))) >>)

\* { var a = 1; { var a = 2; print a; } print a; }
\* fun f(a) { { var a = 3; print a; } }
\* f(0);
\* for (var i = 0; i < 1; i = i + 1) { var i = 5; print i; }
NestedDecl ==
    Source("nested_decl",
        << Block(<< VarDecl("a", Num(1)),
                    Block(<< VarDecl("a", Num(2)), PrintS(Var("a")) >>),
                    PrintS(Var("a")) >>),
           Fun("f", <<"a">>,
               << Block(<< VarDecl("a", Num(3)), PrintS(Var("a")) >>) >>),
           ExprS(Call(Var("f"), << Num(0) >>)),
           For(VarDecl("i", Num(0)), Bin(Var("i"), "Less", Num(1)),
               Asg("i", Bin(Var("i"), "Add", Num(1))),
               Block(<< VarDecl("i", Num(5)), PrintS(Var("i")) >>)) >>)

\* var a = a;
SelfInitTop == Source("self_init_top", << VarDecl("a", Var("a")) >>)

\* { var a = a; }
SelfInitBlock ==
    Source("self_init_block", << Block(<< VarDecl("a", Var("a")) >>) >>)

\* return 1;
TopReturn == Source("top_return", << Return(Num(1)) >>)

\* class P { init() { return 1; } }
InitReturnsValue ==
    Source("init_returns_value",
        << Class("P", NoneX, << Fun("init", <<>>, << Return(Num(1)) >>) >>) >>)

\* class R { init() { fun h() { return 1; } return 2; } }
InitReturnsValueLater ==
    Source("init_returns_value_later",
        << Class("R", NoneX,
               << Fun("init", <<>>,
                      << Fun("h", <<>>, << Return(Num(1)) >>),
                         Return(Num(2)) >>) >>) >>)

\* class Q {
\*   init() { fun helper() { return 4; } this.v = helper(); return; }
\*   get() { return this.v; }
\* }
\* print Q().get();
InitNested ==
    Source("init_nested",
        << Class("Q", NoneX,
               << Fun("init", <<>>,
                      << Fun("helper", <<>>, << Return(Num(4)) >>),
                         ExprS(SetP(This, "v", Call(Var("helper"), <<>>))),
                         Return(NoneX) >>),
                  Fun("get", <<>>, << Return(Get(This, "v")) >>) >>),
           PrintS(Call(Get(Call(Var("Q"), <<>>), "get"), <<>>)) >>)

\* class Box { setValue(v) { this.val = v; } getValue() { return this.val; } }
\* var a = Box(); var b = Box();
\* a.setValue("Gold"); b.setValue("Iron");
\* var setA = a.setValue; var getA = a.getValue; var getB = b.getValue;
\* print getA();
BoxMethod ==
    Source("box_method",
        << Class("Box", NoneX,
               << Fun("setValue", <<"v">>,
                      << ExprS(SetP(This, "val", Var("v"))) >>),
                  Fun("getValue", <<>>, << Return(Get(This, "val")) >>) >>),
           VarDecl("a", Call(Var("Box"), <<>>)),
           VarDecl("b", Call(Var("Box"), <<>>)),
           ExprS(Call(Get(Var("a"), "setValue"), << Str("Gold") >>)),
           ExprS(Call(Get(Var("b"), "setValue"), << Str("Iron") >>)),
           VarDecl("setA", Get(Var("a"), "setValue")),
           VarDecl("getA", Get(Var("a"), "getValue")),
           VarDecl("getB", Get(Var("b"), "getValue")),
           PrintS(Call(Var("getA"), <<>>)) >>)

\* a later line at the prompt:
\* { var t = 0; { t; t; t; } }
\* setA("Silver"); print getA(); print getB();
CallStored ==
    Source("call_stored",
        << Block(<< VarDecl("t", Num(0)),
                    Block(<< ExprS(Var("t")), ExprS(Var("t")),
                             ExprS(Var("t")) >>) >>),
           ExprS(Call(Var("setA"), << Str("Silver") >>)),
           PrintS(Call(Var("getA"), <<>>)),
           PrintS(Call(Var("getB"), <<>>)) >>)

\* var x = 6; print x += 2; try { x -= 2; } catch (e) { }
\* try { x *= 2; } catch (e) { }  try { x /= 2; } catch (e) { }
CompoundAssign ==
    Source("compound_assign",
        << VarDecl("x", Num(6)),
           PrintS(AsgOp("x", "Add", Num(2))),
           Try(<< ExprS(AsgOp("x", "Sub", Num(2))) >>, "e", <<>>),
           Try(<< ExprS(AsgOp("x", "Mul", Num(2))) >>, "e", <<>>),
           Try(<< ExprS(AsgOp("x", "Div", Num(2))) >>, "e", <<>>) >>)

\* var l = [1, 2]; print l[0 - 1]; l[0 - 1] = 9; print l[0];
\* try { l[2]; } catch (e) { }  try { l[1 / 2] = 7; } catch (e) { }
ListIndex ==
    Source("list_index",
        << VarDecl("l", List(<< Num(1), Num(2) >>)),
           PrintS(GetIndex(Var("l"), Bin(Num(0), "Sub", Num(1)))),
           ExprS(SetIndex(Var("l"), Bin(Num(0), "Sub", Num(1)), Num(9))),
           PrintS(GetIndex(Var("l"), Num(0))),
           Try(<< ExprS(GetIndex(Var("l"), Num(2))) >>, "e", <<>>),
           Try(<< ExprS(SetIndex(Var("l"), Bin(Num(1), "Div", Num(2)), Num(7))) >>,
               "e", <<>>) >>)

\* for (var i = 0; i < 4; i = i + 1) {
\*   if (i == 1) continue;  if (i == 3) break;  print i; }
ForSignals ==
    Source("for_signals",
        << For(VarDecl("i", Num(0)), Bin(Var("i"), "Less", Num(4)),
               Asg("i", Bin(Var("i"), "Add", Num(1))),
               Block(<< If(Bin(Var("i"), "Equal", Num(1)), Continue, NoneX),
                        If(Bin(Var("i"), "Equal", Num(3)), Break, NoneX),
                        PrintS(Var("i")) >>)) >>)

\* fun id(x) { return x; }  var n = 0;  print id(n = n + 1);  print n;
ArgumentEffect ==
    Source("argument_effect",
        << Fun("id", << "x" >>, << Return(Var("x")) >>),
           VarDecl("n", Num(0)),
           PrintS(Call(Var("id"), << Asg("n", Bin(Var("n"), "Add", Num(1))) >>)),
           PrintS(Var("n")) >>)

\* var a = [1]; var b = [2]; var c = a + b; print c[1]; print a + a;
ListConcat ==
    Source("list_concat",
        << VarDecl("a", List(<< Num(1) >>)),
           VarDecl("b", List(<< Num(2) >>)),
           VarDecl("c", Bin(Var("a"), "Add", Var("b"))),
           PrintS(GetIndex(Var("c"), Num(1))),
           PrintS(Bin(Var("a"), "Add", Var("a"))) >>)

\* y = 1; print y;
AssignUndefined ==
    Source("assign_undefined", << ExprS(Asg("y", Num(1))), PrintS(Var("y")) >>)

\* var h = import("host.rox");
ImportHost == Source("import_host", << VarDecl("h", Import("host.rox")) >>)

Sources ==
    {AssignUndefined, CompoundAssign, ListIndex, ForSignals, ArgumentEffect,
     ListConcat,
     ImportHost, TrySignals, SuperChain, CallSuperLater, BoxMethod, CallStored, InitReturnsValue, InitReturnsValueLater,
     InitNested, TopReturn, SelfInitTop, SelfInitBlock, DupBlock, DupParam, DupFor, NestedDecl,
     ForInitError, Shadowing, Counter, CounterImport, Nested, GlobalRead,
     ImportCounter, ImportShadow, Cycle, CycleLib, Selfish, BreakInFunction, LoopCall,
     Classes, BadScan, Failures, ConditionalDecl}

(***************************************************************************)
(* The scanner (src/tokenizer/scanner.rs).  A text is a sequence of        *)
(* characters, each a one-character string; NUL is what peek and           *)
(* peek_next return past the end.  `current` and `start` count characters  *)
(* from 0 as in the code, so source[current] of the code is                *)
(* source[current + 1] here.                                               *)
(***************************************************************************)
\* longest text the scanner is given
MaxText == 4

NUL == ""

Digits == {"1", "5"}

Letters == {"a"}

Alphabet == Digits \cup Letters \cup {".", ";", "\"", "/", "*", "\n", "@"}

Texts == UNION {[1..n -> Alphabet] : n \in 0..MaxText}

is_numeric(c) == c \in Digits

is_alphabetic(c) == c \in Letters

Scanner_new(source) ==
    [source |-> source, tokens |-> <<>>, start |-> 0, current |-> 0,
     line |-> 1, errors |-> <<>>]

is_at_end(s) == s.current >= Len(s.source)

peek(s) == IF is_at_end(s) THEN NUL ELSE s.source[s.current + 1]

peek_next(s) ==
    IF s.current + 1 >= Len(s.source) THEN NUL ELSE s.source[s.current + 2]

\* the scanner after advance(); the character it returns is peek(s)
advance(s) == [s EXCEPT !.current = @ + 1]

match_char(s, expected) == ~is_at_end(s) /\ s.source[s.current + 1] = expected

lexeme(s, is_string_lexeme) ==
    IF is_string_lexeme THEN SubSeq(s.source, s.start + 2, s.current - 1)
    ELSE SubSeq(s.source, s.start + 1, s.current)

Token_new(token_type, lex, line, literal) ==
    [token_type |-> token_type, lexeme |-> lex, line |-> line,
     literal |-> literal]

\* a value of the Literal enum
Literal(kind, value) == [t |-> kind, value |-> value]

LiteralNone == Literal("None", <<>>)

add_token_with_literal(s, token_type, literal) ==
    [s EXCEPT !.tokens =
        Append(@, Token_new(token_type, lexeme(s, FALSE), s.line, literal))]

add_token(s, token_type) == add_token_with_literal(s, token_type, LiteralNone)

handle_whitespace(s, c) == IF c = "\n" THEN [s EXCEPT !.line = @ + 1] ELSE s

handle_error(s, error) == [s EXCEPT !.errors = Append(@, error)]

\* a token of one character, or of two when `second` follows
one_or_two(s, second, two, one) ==
    IF match_char(s, second) THEN add_token(advance(s), two)
    ELSE add_token(s, one)

RECURSIVE DecimalOf(_)
\* the number a sequence of decimal digits writes
DecimalOf(digits) ==
    IF digits = <<>> THEN 0
    ELSE 10 * DecimalOf(Front(digits))
         + (CASE Last(digits) = "1" -> 1 [] Last(digits) = "5" -> 5)

\* where the first "." of a lexeme is, 0 when it has none
DotAt(lex) ==
    IF \E i \in DOMAIN lex : lex[i] = "."
    THEN CHOOSE i \in DOMAIN lex : lex[i] = "." /\ \A j \in 1..(i - 1) : lex[j] # "."
    ELSE 0

\* str::parse::<f64> on a lexeme of is_digit: digits, then perhaps "." and
\* digits.  The value is kept exactly, as the whole part and the digits of
\* the fraction.
parse_f64(lex) ==
    IF DotAt(lex) = 0 THEN [whole |-> DecimalOf(lex), fraction |-> <<>>]
    ELSE [whole |-> DecimalOf(SubSeq(lex, 1, DotAt(lex) - 1)),
          fraction |-> SubSeq(lex, DotAt(lex) + 1, Len(lex))]

\* the end of is_digit: the Number token of the characters consumed
number_token(s) ==
    add_token_with_literal(s, "Number", Literal("Number", parse_f64(lexeme(s, FALSE))))

Keywords ==
    (<<"a", "n", "d">> :> "BitAnd") @@ (<<"c", "l", "a", "s", "s">> :> "Class") @@
    (<<"e", "l", "s", "e">> :> "Else") @@ (<<"f", "a", "l", "s", "e">> :> "False") @@
    (<<"f", "o", "r">> :> "For") @@ (<<"f", "u", "n">> :> "Fun") @@
    (<<"i", "f">> :> "If") @@ (<<"n", "i", "l">> :> "Nil") @@
    (<<"o", "r">> :> "BitOr") @@ (<<"p", "r", "i", "n", "t">> :> "Print") @@
    (<<"r", "e", "t", "u", "r", "n">> :> "Return") @@
    (<<"s", "u", "p", "e", "r">> :> "Super") @@ (<<"t", "h", "i", "s">> :> "This") @@
    (<<"t", "r", "u", "e">> :> "True") @@ (<<"v", "a", "r">> :> "Var") @@
    (<<"w", "h", "i", "l", "e">> :> "While") @@
    (<<"c", "o", "n", "t", "i", "n", "u", "e">> :> "Continue") @@
    (<<"b", "r", "e", "a", "k">> :> "Break")

identifier_token(s) ==
    add_token(s, IF lexeme(s, FALSE) \in DOMAIN Keywords
                 THEN Keywords[lexeme(s, FALSE)] ELSE "Identifier")

\* scan_token once its first character c is consumed: the scanner, and
\* the loop of the scanner that goes on, "scan_tokens" when the token is
\* complete
scan_token(s, c) ==
    CASE c = "(" -> [s |-> add_token(s, "LeftParen"), pc |-> "scan_tokens"]
      [] c = ")" -> [s |-> add_token(s, "RightParen"), pc |-> "scan_tokens"]
      [] c = "{" -> [s |-> add_token(s, "LeftBrace"), pc |-> "scan_tokens"]
      [] c = "}" -> [s |-> add_token(s, "RightBrace"), pc |-> "scan_tokens"]
      [] c = "," -> [s |-> add_token(s, "Comma"), pc |-> "scan_tokens"]
      [] c = "." -> [s |-> add_token(s, "Dot"), pc |-> "scan_tokens"]
      [] c = "-" -> [s |-> one_or_two(s, "=", "MinusEqual", "Minus"),
                     pc |-> "scan_tokens"]
      [] c = "+" -> [s |-> one_or_two(s, "=", "PlusEqual", "Plus"),
                     pc |-> "scan_tokens"]
      [] c = ";" -> [s |-> add_token(s, "Semicolon"), pc |-> "scan_tokens"]
      [] c = "*" -> [s |-> one_or_two(s, "=", "StarEqual", "Star"),
                     pc |-> "scan_tokens"]
      [] c = "!" -> [s |-> one_or_two(s, "=", "BangEqual", "Bang"),
                     pc |-> "scan_tokens"]
      [] c = "=" -> [s |-> one_or_two(s, "=", "EqualEqual", "Equal"),
                     pc |-> "scan_tokens"]
      [] c = "^" -> [s |-> add_token(s, "BitXor"), pc |-> "scan_tokens"]
      [] c = "<" -> [s |-> one_or_two(s, "=", "LessEqual", "Less"),
                     pc |-> "scan_tokens"]
      [] c = ">" -> [s |-> one_or_two(s, "=", "GreaterEqual", "Greater"),
                     pc |-> "scan_tokens"]
      [] c = "/" ->
            IF match_char(s, "/") THEN [s |-> advance(s), pc |-> "line_comment"]
            ELSE IF match_char(s, "*")
            THEN [s |-> advance(s), pc |-> "scan_block_comment"]
            ELSE [s |-> one_or_two(s, "=", "SlashEqual", "Slash"),
                  pc |-> "scan_tokens"]
      [] c = "&" -> [s |-> one_or_two(s, "&", "And", "BitAnd"),
                     pc |-> "scan_tokens"]
      [] c = "|" -> [s |-> one_or_two(s, "|", "Or", "BitOr"),
                     pc |-> "scan_tokens"]
      [] c \in {" ", "\t", "\r", "\n"} ->
            [s |-> handle_whitespace(s, c), pc |-> "scan_tokens"]
      [] c = "\"" -> [s |-> s, pc |-> "is_string"]
      [] OTHER ->
            IF is_numeric(c) THEN [s |-> s, pc |-> "is_digit"]
            ELSE IF is_alphabetic(c) \/ c = "_"
            THEN [s |-> s, pc |-> "is_identifier"]
            ELSE [s |-> handle_error(s, [error |-> "UnexpectedCharacter",
                                         c |-> c, line |-> s.line]),
                  pc |-> "scan_tokens"]

(***************************************************************************)
(* The driver (src/main.rs).                                               *)
(***************************************************************************)
Interp ==
    [envs |-> envs, objs |-> objs, environment |-> environment,
     globals |-> globals, locals |-> locals, modules |-> modules,
     path_stack |-> path_stack, exports_stack |-> exports_stack,
     out |-> out, trace |-> trace, iterations |-> 0]

Install(st) ==
    /\ envs' = st.envs
    /\ objs' = st.objs
    /\ environment' = st.environment
    /\ globals' = st.globals
    /\ locals' = st.locals
    /\ modules' = st.modules
    /\ path_stack' = st.path_stack
    /\ exports_stack' = st.exports_stack
    /\ out' = st.out
    /\ trace' = st.trace

\* the process at its start, before any source is read
Fresh ==
    /\ envs = Interpreter_new.envs
    /\ objs = Interpreter_new.objs
    /\ environment = Interpreter_new.environment
    /\ globals = Interpreter_new.globals
    /\ locals = Interpreter_new.locals
    /\ modules = Interpreter_new.modules
    /\ path_stack = Interpreter_new.path_stack
    /\ exports_stack = Interpreter_new.exports_stack
    /\ out = <<>>
    /\ trace = <<>>
    /\ mode = "start"
    /\ entries = <<>>
    /\ last = "none"

Init ==
    /\ Fresh
    /\ scanner = Scanner_new(<<>>)
    /\ scan_pc = "idle"

\* what the process is left with when a run has ended with r: the
\* interpreter r.st, and the driver at `next` unless the run panicked or hangs
Finish(r, next) ==
    /\ last' = r.k
    /\ mode' = CASE r.k = "Panic" -> "aborted"
                 [] r.k = "Hang" -> "hung"
                 [] OTHER -> next
    /\ Install(r.st)

\* `rox <script>`: run_file, then the process exits
RunFile(source) ==
    /\ mode = "start"
    /\ Finish(dispatch("run_file", << source, Interp >>), "exit")
    /\ entries' = <<source.name>>
    /\ UNCHANGED <<scanner, scan_pc>>

\* `rox`: one line of the REPL, run by the interpreter that persists
ReplEntry(source) ==
    /\ mode \in {"start", "repl"}
    /\ Len(entries) < MaxEntries
    /\ Finish(dispatch("run_interpreter_with_state", << source, Interp >>),
              "repl")
    /\ entries' = Append(entries, source.name)
    /\ UNCHANGED <<scanner, scan_pc>>

\* Ctrl-D at the prompt
ReplQuit ==
    /\ mode = "repl"
    /\ mode' = "exit"
    /\ UNCHANGED <<envs, objs, environment, globals, locals, modules,
                   path_stack, exports_stack, out, trace, entries, last,
                   scanner, scan_pc>>

Next ==
    \/ \E source \in Sources : RunFile(source)
    \/ \E source \in Sources : ReplEntry(source)
    \/ ReplQuit

Spec == Init /\ [][Next]_vars

(***************************************************************************)
(* The scanner as a machine of its own: scan_tokens on one text, a step    *)
(* for every turn of one of its loops.  scan_pc names the loop the         *)
(* scanner is in.                                                          *)
(***************************************************************************)
ScanInit ==
    /\ Fresh
    /\ \E text \in Texts : scanner = Scanner_new(text)
    /\ scan_pc = "scan_tokens"

Scanning(s, pc) ==
    /\ scanner' = s
    /\ scan_pc' = pc
    /\ UNCHANGED <<envs, objs, environment, globals, locals, modules,
                   path_stack, exports_stack, out, trace, mode, entries, last>>

\* scan_tokens: one turn of `while !self.is_at_end()`, which is scan_token
\* up to the loop it enters
ScanToken ==
    /\ scan_pc = "scan_tokens"
    /\ ~is_at_end(scanner)
    /\ LET s == [scanner EXCEPT !.start = scanner.current]
           r == scan_token(advance(s), peek(s))
       IN  Scanning(r.s, r.pc)

\* scan_tokens at the end of the text: the Eof token, then Ok or Err
ScanEof ==
    /\ scan_pc = "scan_tokens"
    /\ is_at_end(scanner)
    /\ Scanning([scanner EXCEPT !.tokens =
                    Append(@, Token_new("Eof", <<>>, scanner.line, LiteralNone))],
                "done")

\* `//`: while peek() != '\n' && !is_at_end()
LineComment ==
    /\ scan_pc = "line_comment"
    /\ IF peek(scanner) # "\n" /\ ~is_at_end(scanner)
       THEN Scanning(advance(scanner), "line_comment")
       ELSE Scanning(scanner, "scan_tokens")

\* scan_block_comment: while !is_at_end()
BlockComment ==
    /\ scan_pc = "scan_block_comment"
    /\ IF is_at_end(scanner) THEN Scanning(scanner, "scan_tokens")
       ELSE IF peek(scanner) = "*" /\ peek_next(scanner) = "/"
       THEN Scanning(advance(advance(scanner)), "scan_tokens")
       ELSE Scanning(advance(handle_whitespace(scanner, peek(scanner))),
                     "scan_block_comment")

\* is_string: while peek() != '"' && !is_at_end(), then the token or the
\* error
StringChar ==
    /\ scan_pc = "is_string"
    /\ IF peek(scanner) # "\"" /\ ~is_at_end(scanner)
       THEN Scanning(advance(handle_whitespace(scanner, peek(scanner))),
                     "is_string")
       ELSE IF is_at_end(scanner)
       THEN Scanning(handle_error(scanner, [error |-> "UnterminatedString",
                                            line |-> scanner.line]),
                     "scan_tokens")
       ELSE LET s == advance(scanner)
            IN  Scanning(add_token_with_literal(s, "String",
                             Literal("String", lexeme(s, TRUE))),
                         "scan_tokens")

\* is_digit: while peek().is_numeric(), then the "." if there is one
DigitWhole ==
    /\ scan_pc = "is_digit"
    /\ IF is_numeric(peek(scanner))
       THEN Scanning(advance(scanner), "is_digit")
       ELSE IF peek(scanner) = "."
       THEN Scanning(advance(scanner), "is_digit_fraction")
       ELSE Scanning(number_token(scanner), "scan_tokens")

\* is_digit after the ".": while peek_next().is_numeric()
DigitFraction ==
    /\ scan_pc = "is_digit_fraction"
    /\ IF is_numeric(peek_next(scanner))
       THEN Scanning(scanner, "is_digit_fraction_digits")
       ELSE Scanning(number_token(scanner), "scan_tokens")

\* is_digit, inside that loop: while peek().is_numeric()
DigitFractionDigits ==
    /\ scan_pc = "is_digit_fraction_digits"
    /\ IF is_numeric(peek(scanner))
       THEN Scanning(advance(scanner), "is_digit_fraction_digits")
       ELSE Scanning(scanner, "is_digit_fraction")

\* is_identifier: while peek().is_alphanumeric() || peek() == '_'
IdentifierChar ==
    /\ scan_pc = "is_identifier"
    /\ IF is_alphabetic(peek(scanner)) \/ is_numeric(peek(scanner))
          \/ peek(scanner) = "_"
       THEN Scanning(advance(scanner), "is_identifier")
       ELSE Scanning(identifier_token(scanner), "scan_tokens")

ScanNext ==
    \/ ScanToken
    \/ ScanEof
    \/ LineComment
    \/ BlockComment
    \/ StringChar
    \/ DigitWhole
    \/ DigitFraction
    \/ DigitFractionDigits
    \/ IdentifierChar

ScanSpec == ScanInit /\ [][ScanNext]_vars

\* the scanner is sequential code: a step it can take, it takes
ScanLive == ScanSpec /\ WF_vars(ScanNext)

\* what scan_tokens returns
scan_tokens_result ==
    IF scanner.errors # <<>> THEN [k |-> "Err", errors |-> scanner.errors]
    ELSE [k |-> "Ok", tokens |-> scanner.tokens]


(***************************************************************************)
(* Properties.  They are stated over the observation log: trace holds,     *)
(* in order, what each statement, block, lookup, call and import did.      *)
(***************************************************************************)
Ev(kind) == {i \in DOMAIN trace : trace[i].ev = kind}

Session(names) == entries = names /\ mode # "start"

\* C1: whatever the statement kind and however it ends (normally, with an
\* error or with a control-flow signal), the current environment after the
\* statement is the environment from before it.
C1_EnvironmentRestoration ==
    \A i \in Ev("stmt") : trace[i].after = trace[i].before

\* C2: every way out of a body run by execute_block (block statement,
\* function or method body, initializer body) first puts the environment
\* back to the one from before the body and hands the caller the body's own
\* result, error or signal.
C2_BlockFinallyDiscipline ==
    \A i \in Ev("block") :
        /\ trace[i].after = trace[i].previous
        /\ trace[i].returned = trace[i].body

C2_Witness ==
    /\ \E i \in Ev("block") : trace[i].who = "call" /\ trace[i].body[1] = "Return"
    /\ \E i \in Ev("block") : trace[i].who = "block" /\ trace[i].body[1] = "Break"
    /\ \E i \in Ev("block") : trace[i].who = "call" /\ trace[i].body[1] = "Err"

\* C3: every read or write through a side-table depth finds the name in the
\* scope that many hops up: never a miss, never a missing parent.
C3_ResolvedLookupsHit ==
    \A i \in Ev("local") : trace[i].r = "hit"

\* C4: a function that refers to an outer binding keeps reading that
\* binding after its own scope declares the same name: every call of showA
\* yields "global".
C4_ShadowingStable ==
    \A i \in Ev("call") :
        trace[i].name = "showA" =>
            trace[i].res = "Ok" /\ trace[i].val = String("global")

\* C5: a closure keeps the locals of the call that created it, wherever it
\* is called from: the k-th call of one counter closure returns k.
C5_CounterClosure ==
    \A i \in Ev("call") :
        trace[i].name = "count" =>
            /\ trace[i].res = "Ok"
            /\ trace[i].val =
                 Number(Cardinality({j \in Ev("call") :
                            /\ j <= i
                            /\ trace[j].name = "count"
                            /\ trace[j].closure = trace[i].closure}))

\* C6: code of a module reads and writes its global names in the module's
\* own top-level environment, never in the importing program's globals.
C6_ModuleGlobalsAreItsOwn ==
    \A i \in Ev("global") :
        trace[i].home # Interpreter_new.globals =>
            trace[i].used = trace[i].home

\* whether a statement list holds a break or continue that is inside a
\* function or method body but in no loop of that same body
RECURSIVE StrayJump(_, _, _), StrayJumpIn(_, _, _)
StrayJump(stmts, in_function, in_loop) ==
    \E i \in DOMAIN stmts : StrayJumpIn(stmts[i], in_function, in_loop)

StrayJumpIn(s, in_function, in_loop) ==
    CASE s.k \in {"Break", "Continue"} -> in_function /\ ~in_loop
      [] s.k = "Block" -> StrayJump(s.body, in_function, in_loop)
      [] s.k = "If" ->
            \/ StrayJumpIn(s.then_branch, in_function, in_loop)
            \/ (s.else_branch # NoneX
                /\ StrayJumpIn(s.else_branch, in_function, in_loop))
      [] s.k = "Try" ->
            \/ StrayJump(s.try_body, in_function, in_loop)
            \/ StrayJump(s.catch_body, in_function, in_loop)
      [] s.k \in {"While", "For"} -> StrayJumpIn(s.body, in_function, TRUE)
      [] s.k = "Function" -> StrayJump(s.body, TRUE, FALSE)
      [] s.k = "Class" -> StrayJump(s.methods, TRUE, FALSE)
      [] s.k = "Export" -> StrayJumpIn(s.stmt, in_function, in_loop)
      [] OTHER -> FALSE

\* C7: no break or continue signal leaves the body of a function, method or
\* initializer call, and a source with a break or continue that is inside a
\* function body but in no loop of that body is rejected before any of it
\* runs.
C7_ControlFlowIsolation ==
    /\ \A i \in Ev("block") :
           trace[i].who \in {"call", "init"} =>
               trace[i].body[1] \notin {"Break", "Continue"}
    /\ \A source \in Sources :
           StrayJump(source.text, FALSE, FALSE) =>
               \A i \in Ev("front") :
                   trace[i].name = source.name =>
                       trace[i].stage \in {"parse", "resolve"}

C7_Witness ==
    /\ \E i \in Ev("front") :
           trace[i].name = "break_in_function" /\ trace[i].stage = "parse"
    /\ \E i \in Ev("call") : trace[i].name = "g" /\ trace[i].res = "Ok"
    /\ \E i \in Ev("block") : trace[i].who = "block" /\ trace[i].body[1] = "Break"

\* C8: two imports of one absolute path that both return a module return
\* the same module object, and the one that began later is served from the
\* cache.
C8_ModuleIdempotence ==
    \A i, j \in Ev("import") :
        (/\ trace[i].res = "Ok"
         /\ trace[j].res = "Ok"
         /\ trace[i].path = trace[j].path
         /\ trace[i].start < trace[j].start)
        => trace[j].ref = trace[i].ref /\ trace[j].cached

\* the loads that completed: imports that read and ran the module
Loads == {j \in Ev("import") : ~trace[j].cached /\ trace[j].res = "Ok"}

\* the imports begun while load j was running
During(j) == {i \in Ev("import") : trace[j].start < trace[i].start /\ i < j}

\* C9: an import of a module that is already in the cache returns at once,
\* without reading or running anything; when a load completes, its handle
\* is initialised, every import of the same path made during the load got
\* this very handle, and every module loaded during it is initialised too;
\* once b.rox has imported a.rox back, both loads of the cycle complete,
\* and the importer sees each module's exports through the other's handle.
C9_CycleTermination ==
    /\ \A i \in Ev("import") : trace[i].cached => i = trace[i].start + 1
    /\ \A j \in Loads :
           /\ trace[j].is_initialized
           /\ objs[trace[j].ref].is_initialized
           /\ \A i \in During(j) :
                  /\ trace[i].path = trace[j].path =>
                         /\ trace[i].res = "Ok"
                         /\ trace[i].cached
                         /\ ~trace[i].is_initialized
                         /\ trace[i].ref = trace[j].ref
                  /\ (i \in Loads) => objs[trace[i].ref].is_initialized
    /\ \A i \in Ev("import") :
           (trace[i].path = "/w/a.rox" /\ trace[i].cached
            /\ ~trace[i].is_initialized) =>
               \E j \in Loads :
                   /\ i \in During(j)
                   /\ trace[j].ref = trace[i].ref
                   /\ \E k \in During(j) \cap Loads :
                          i < k /\ trace[k].path = "/w/b.rox"
    /\ (entries # <<>> /\ Last(entries) = "cycle" /\ last = "Ok") =>
           /\ Len(out) >= 2
           /\ out[Len(out) - 1] = Number(1)
           /\ out[Len(out)] = Number(2)

C9_Witness ==
    /\ Session(<<"cycle">>)
    /\ last = "Ok"
    /\ \E j \in Loads :
           /\ trace[j].path = "/w/a.rox"
           /\ \E i \in During(j) :
                  /\ trace[i].path = "/w/a.rox"
                  /\ trace[i].cached
           /\ \E i \in During(j) \cap Loads : trace[i].path = "/w/b.rox"
           /\ objs[trace[j].ref].exports["b"].t = "Module"
           /\ objs[objs[trace[j].ref].exports["b"].ref].exports["a"] =
                  ModuleRef(trace[j].ref)

\* what C10 asks of every state
C10_HandleBeforeBody ==
    /\ \A i \in Ev("body_start") :
           /\ trace[i].snap.cached
           /\ trace[i].snap.same
           /\ ~trace[i].snap.is_initialized
           /\ trace[i].snap.exports = {}
    /\ \A i \in Ev("initialized") : trace[i].body = "Ok"

\* what C10 asks of every step
C10_StaysInitialized ==
    \A r \in DOMAIN objs :
        (objs[r].o = "module" /\ objs[r].is_initialized) =>
            (r \in DOMAIN objs' /\ objs'[r].is_initialized)

\* C10: when the first statement of a module body runs, the cache maps the
\* module's path to its handle, not initialised and with no exports; the
\* handle is marked initialised only after the body completed without
\* error, and an initialised handle stays initialised.
C10_HandleInstalledBeforeBody ==
    []C10_HandleBeforeBody /\ [][C10_StaysInitialized]_vars

C10_Witness ==
    /\ \E i \in Ev("body_start") : \E j \in Ev("initialized") :
           i < j /\ trace[i].ref = trace[j].ref
    /\ \E i \in Ev("body_start") :
           \A j \in Ev("initialized") : trace[j].ref # trace[i].ref

\* the import calls that failed after their handle was created
FailedLoads == {i \in Ev("import") : trace[i].res # "Ok" /\ trace[i].ref # 0}

\* the reads of `path` by a load that has not returned: one that is still
\* running, or one that a panic cut short
Unreturned(path) ==
    {r \in Ev("read") :
        /\ trace[r].path = path
        /\ \A k \in Ev("import") :
              trace[k].path = path => ~(trace[k].start < r /\ r < k)}

\* the first import call of load i's path that begins after i has returned
NextImport(i) ==
    {j \in Ev("import") :
        /\ trace[j].path = trace[i].path /\ trace[j].start >= i
        /\ \A r \in Unreturned(trace[i].path) : ~(i < r /\ r < trace[j].start)
        /\ \A k \in Ev("import") :
              trace[k].path = trace[i].path /\ trace[k].start >= i
                  => trace[k].start >= trace[j].start}

\* the events of kind `kind` about `path` logged while import call j ran
Within(j, kind, path) ==
    {r \in Ev(kind) : trace[r].path = path /\ trace[j].start < r /\ r < j}

\* C11: when a load fails after its handle was put in the cache (scan, parse
\* or resolution error, or an error in the body), the cache has no entry for
\* the path as import returns the error, and the next import of the path is
\* not served from the cache: it reads the file again, and runs the body
\* again if the failed load had come as far as the body.
C11_FailureEvicts ==
    \A i \in FailedLoads :
        /\ ~trace[i].in_cache
        /\ \A j \in NextImport(i) :
              /\ ~trace[j].cached
              /\ Within(j, "read", trace[i].path) # {}
              /\ Within(i, "body_start", trace[i].path) # {}
                    => Within(j, "body_start", trace[i].path) # {}

\* a load that failed before its body and a load that failed in its body
\* have both been imported again
C11_Witness ==
    /\ \E i \in FailedLoads :
          /\ Within(i, "body_start", trace[i].path) = {}
          /\ NextImport(i) # {}
    /\ \E i \in FailedLoads :
          /\ Within(i, "body_start", trace[i].path) # {}
          /\ NextImport(i) # {}

\* C12: as import_module returns, with a module or with any failure, the
\* globals / current-environment pair is the one from before the call, and
\* the path stack and the exports-name stack have the depth they had before
\* the call.
C12_ImportRestoresFrame ==
    \A i \in Ev("import") : trace[i].after = trace[i].before

\* the names of the export statements that load i's own body executed: the
\* exports logged between the start of the body and its end while the
\* globals pointer was the module's environment
OwnExports(i) ==
    {trace[e].name : e \in
        {e \in Ev("export") :
            \E b \in Ev("body_start") :
                /\ trace[b].ref = trace[i].ref
                /\ b < e /\ e < i
                /\ trace[e].globals = trace[b].env}}

\* C13: after a successful load the exports map holds exactly the names that
\* the module's own export statements declared during this load and that are
\* bound in the module environment, each with its value there, whatever
\* imports the body made in between.
C13_ExportsAreOwn ==
    \A i \in Ev("initialized") :
        /\ DOMAIN trace[i].exports = OwnExports(i) \cap DOMAIN trace[i].values
        /\ \A n \in DOMAIN trace[i].exports :
              trace[i].exports[n] = trace[i].values[n]

\* C14: a return, break or continue signal raised in a try block leaves the
\* try statement unchanged and the catch block is not run; the catch block
\* runs exactly when the try block ended with a runtime error, in a new
\* scope over the environment of the try statement that binds the catch
\* variable alone, to the error message.  In the script try_signals the
\* signals reach the enclosing call and loop: it prints 7, 2 and 5.
C14_TryPassesControlFlow ==
    /\ \A i \in Ev("try") :
          /\ trace[i].tried[1] \in {"Return", "Break", "Continue"}
                => ~trace[i].caught /\ trace[i].res = trace[i].tried
          /\ trace[i].caught <=> trace[i].tried[1] = "Err"
          /\ trace[i].caught =>
                /\ trace[i].catch_env > trace[i].envs
                /\ \E e \in Ev("stmt") :
                      /\ e < i
                      /\ trace[e].kind = "Block"
                      /\ trace[e].before = trace[i].catch_env
                /\ Cardinality(DOMAIN trace[i].scope.values) = 1
                /\ \A n \in DOMAIN trace[i].scope.values :
                      trace[i].scope.values[n] = trace[i].tried[2]
                /\ trace[i].tried[2].t = "String"
    /\ Session(<<"try_signals">>) /\ last = "Ok"
          => out = <<Number(7), Number(2), Number(5)>>

\* the three signals have gone through a try statement and an error was caught
C14_Witness ==
    /\ \A k \in {"Return", "Break", "Continue", "Err"} :
          \E i \in Ev("try") : trace[i].tried[1] = k
    /\ Session(<<"try_signals">>) /\ last = "Ok"

\* one declaration in a scope that has already declared the names `declared`
Declaration(name, declared, global) ==
    [dup |-> ~global /\ name \in declared, names |-> declared \cup {name}]

RECURSIVE Redeclares(_, _, _), RedeclaresIn(_, _, _)

\* the statements of one scope, in order: is a name declared twice in one
\* non-global scope, here or in a scope nested in these statements
Redeclares(stmts, declared, global) ==
    IF stmts = <<>> THEN [dup |-> FALSE, names |-> declared]
    ELSE LET first == RedeclaresIn(Head(stmts), declared, global)
         IN  IF first.dup THEN first
             ELSE Redeclares(Tail(stmts), first.names, global)

RedeclaresIn(s, declared, global) ==
    LET here(dup) == [dup |-> dup, names |-> declared]
        function(f) ==
            \/ \E i, j \in DOMAIN f.params : i # j /\ f.params[i] = f.params[j]
            \/ Redeclares(f.body, {f.params[i] : i \in DOMAIN f.params},
                          FALSE).dup
    IN  CASE s.k = "VarDecl" -> Declaration(s.name, declared, global)
          [] s.k = "Function" ->
                LET d == Declaration(s.name, declared, global)
                IN  [d EXCEPT !.dup = @ \/ function(s)]
          [] s.k = "Class" ->
                LET d == Declaration(s.name, declared, global)
                IN  [d EXCEPT !.dup =
                        @ \/ \E i \in DOMAIN s.methods : function(s.methods[i])]
          [] s.k = "Block" -> here(Redeclares(s.body, {}, FALSE).dup)
          [] s.k = "If" ->
                Redeclares(<<s.then_branch>> \o
                           (IF s.else_branch = NoneX THEN <<>>
                            ELSE <<s.else_branch>>), declared, global)
          [] s.k = "While" -> RedeclaresIn(s.body, declared, global)
          [] s.k = "For" ->
                here(Redeclares((IF s.initializer = NoneX THEN <<>>
                                 ELSE <<s.initializer>>) \o <<s.body>>,
                                {}, FALSE).dup)
          [] s.k = "Try" ->
                here(\/ Redeclares(s.try_body, {}, FALSE).dup
                     \/ Redeclares(s.catch_body, {}, FALSE).dup)
          [] s.k = "Export" -> RedeclaresIn(s.stmt, declared, global)
          [] OTHER -> here(FALSE)

\* C15: a source that declares a name twice in one non-global scope (a
\* block, a function body with its parameters, a for header with its body
\* statement) is rejected by the resolver and none of it runs; the same
\* name declared again in a nested scope is accepted, and the script
\* nested_decl runs and prints 2, 1, 3 and 5.
C15_SameScopeRedeclarationRejected ==
    /\ \A source \in Sources :
          Redeclares(source.text, {}, TRUE).dup =>
              \A i \in Ev("front") :
                  trace[i].name = source.name => trace[i].stage = "resolve"
    /\ ~Redeclares(NestedDecl.text, {}, TRUE).dup
    /\ \A i \in Ev("front") :
          trace[i].name = "nested_decl" => trace[i].stage = "run"
    /\ Session(<<"nested_decl">>) /\ last = "Ok"
          => out = <<Number(2), Number(1), Number(3), Number(5)>>

\* a block, a parameter list and a for header with a second declaration have
\* been rejected, and the nested declarations have run
C15_Witness ==
    /\ \A n \in {"dup_block", "dup_param", "dup_for"} :
          Redeclares((CHOOSE s \in Sources : s.name = n).text, {}, TRUE).dup
    /\ \E i \in Ev("front") :
          trace[i].name \in {"dup_block", "dup_param", "dup_for"}
    /\ \E i \in Ev("front") : trace[i].name = "nested_decl"
    /\ last = "Ok"
    /\ out = <<Number(2), Number(1), Number(3), Number(5)>>

RECURSIVE ReadsItself(_), ReadsItselfIn(_)

\* some variable declaration of the statements, at any depth, has the
\* declared variable itself as its initializer
ReadsItself(stmts) == \E i \in DOMAIN stmts : ReadsItselfIn(stmts[i])

ReadsItselfIn(s) ==
    CASE s.k = "VarDecl" -> s.initializer = Var(s.name)
      [] s.k = "Block" -> ReadsItself(s.body)
      [] s.k = "If" ->
            \/ ReadsItselfIn(s.then_branch)
            \/ (s.else_branch # NoneX /\ ReadsItselfIn(s.else_branch))
      [] s.k = "Try" -> ReadsItself(s.try_body) \/ ReadsItself(s.catch_body)
      [] s.k = "While" -> ReadsItselfIn(s.body)
      [] s.k = "For" ->
            \/ (s.initializer # NoneX /\ ReadsItselfIn(s.initializer))
            \/ ReadsItselfIn(s.body)
      [] s.k = "Function" -> ReadsItself(s.body)
      [] s.k = "Class" -> ReadsItself(s.methods)
      [] s.k = "Export" -> ReadsItselfIn(s.stmt)
      [] OTHER -> FALSE

\* C16: a source with a declaration `var a = a;`, at the top level or in a
\* block or function body, is rejected before any of it runs.
C16_SelfInitializerRejected ==
    \A source \in Sources :
        ReadsItself(source.text) =>
            \A i \in Ev("front") :
                trace[i].name = source.name => trace[i].stage # "run"

RECURSIVE Misplaced(_, _, _), MisplacedIn(_, _, _)

\* some break or continue of the statements is in no loop, or some return is
\* in no function
Misplaced(stmts, in_function, in_loop) ==
    \E i \in DOMAIN stmts : MisplacedIn(stmts[i], in_function, in_loop)

MisplacedIn(s, in_function, in_loop) ==
    CASE s.k \in {"Break", "Continue"} -> ~in_loop
      [] s.k = "Return" -> ~in_function
      [] s.k = "Block" -> Misplaced(s.body, in_function, in_loop)
      [] s.k = "If" ->
            \/ MisplacedIn(s.then_branch, in_function, in_loop)
            \/ (s.else_branch # NoneX
                /\ MisplacedIn(s.else_branch, in_function, in_loop))
      [] s.k = "Try" ->
            \/ Misplaced(s.try_body, in_function, in_loop)
            \/ Misplaced(s.catch_body, in_function, in_loop)
      [] s.k \in {"While", "For"} -> MisplacedIn(s.body, in_function, TRUE)
      [] s.k = "Function" -> Misplaced(s.body, TRUE, FALSE)
      [] s.k = "Class" -> Misplaced(s.methods, TRUE, FALSE)
      [] s.k = "Export" -> MisplacedIn(s.stmt, in_function, in_loop)
      [] OTHER -> FALSE

\* C17: a source with a break or continue outside a loop, or a return
\* outside a function, is rejected by the parser: it gets no further than
\* the parse stage.
C17_MisplacedJumpFailsToParse ==
    \A source \in Sources :
        source.scans /\ Misplaced(source.text, FALSE, FALSE) =>
            \A i \in Ev("front") :
                trace[i].name = source.name => trace[i].stage = "parse"

RECURSIVE ValueFromInit(_, _), ValueFromInitIn(_, _)

\* some return of the statements carries a value and has a class's init
\* method as its innermost enclosing function
ValueFromInit(stmts, in_init) ==
    \E i \in DOMAIN stmts : ValueFromInitIn(stmts[i], in_init)

ValueFromInitIn(s, in_init) ==
    CASE s.k = "Return" -> in_init /\ s.value # NoneX
      [] s.k = "Block" -> ValueFromInit(s.body, in_init)
      [] s.k = "If" ->
            \/ ValueFromInitIn(s.then_branch, in_init)
            \/ (s.else_branch # NoneX /\ ValueFromInitIn(s.else_branch, in_init))
      [] s.k = "Try" ->
            ValueFromInit(s.try_body, in_init) \/ ValueFromInit(s.catch_body, in_init)
      [] s.k \in {"While", "For"} -> ValueFromInitIn(s.body, in_init)
      [] s.k = "Function" -> ValueFromInit(s.body, FALSE)
      [] s.k = "Class" ->
            \E i \in DOMAIN s.methods :
                ValueFromInit(s.methods[i].body, s.methods[i].name = "init")
      [] s.k = "Export" -> ValueFromInitIn(s.stmt, in_init)
      [] OTHER -> FALSE

\* the front stages reached by the runs of a source
Stages(source) ==
    {trace[i].stage : i \in {i \in Ev("front") : trace[i].name = source.name}}

\* C18: a source in which a return with a value has an init method as its
\* innermost function is rejected by the resolver; a source that the parser
\* accepts and the resolver rejects has such a return unless it has another
\* static error (a second declaration in a scope, a self-reading
\* initializer, a misplaced jump); so a bare return in init, and a return
\* with a value in a function nested in init, are accepted, and the script
\* init_nested runs and prints 4.
C18_ValueReturnFromInitRejected ==
    /\ \A source \in Sources :
          source.scans /\ ValueFromInit(source.text, FALSE)
              => Stages(source) \subseteq {"resolve"}
    /\ \A source \in Sources :
          source.scans /\ "resolve" \in Stages(source) =>
              \/ ValueFromInit(source.text, FALSE)
              \/ Redeclares(source.text, {}, TRUE).dup
              \/ ReadsItself(source.text)
              \/ Misplaced(source.text, FALSE, FALSE)
    /\ ~ValueFromInit(InitNested.text, FALSE)
    /\ Session(<<"init_nested">>) => last = "Ok" /\ out = <<Number(4)>>

\* both init methods that return a value were rejected, the second after a
\* nested function of init had been resolved
C18_Witness ==
    /\ entries = <<"init_returns_value", "init_returns_value_later">>
    /\ \A i \in Ev("front") : trace[i].stage = "resolve"
    /\ Len(trace) = 2

\* the calls of the methods of class Box
BoxCalls(name) == {i \in Ev("call") : trace[i].name = name}

\* the instance a bound method carries: `this` of its closure
Receiver(i) == envs[trace[i].closure].values["this"]

\* C19: a method read through an instance carries that instance as `this`,
\* and calling it later, from a variable and from any place, still works on
\* that instance: every call of setValue succeeds, every call of getValue
\* succeeds and returns what the last setValue on the same instance stored.
C19_BoundMethodKeepsInstance ==
    /\ \A i \in BoxCalls("setValue") \cup BoxCalls("getValue") :
          /\ trace[i].res = "Ok"
          /\ "this" \in DOMAIN envs[trace[i].closure].values
          /\ Receiver(i).t = "Instance"
    /\ \A i \in BoxCalls("getValue") :
          \E j \in BoxCalls("setValue") :
              /\ j < i /\ Receiver(j) = Receiver(i)
              /\ trace[i].val = trace[j].args[1]
              /\ \A k \in BoxCalls("setValue") :
                    k < i /\ Receiver(k) = Receiver(i) => k <= j

\* the environment of the method that is running in environment e: the
\* nearest one that binds `this`
RECURSIVE MethodFrame(_)
MethodFrame(e) ==
    IF e = 0 THEN 0
    ELSE IF Has(envs[e].values, "this") THEN e
    ELSE MethodFrame(envs[e].enclosing)

\* the classes whose declaration wrote the method that runs in frame f: the
\* closure of a declared method is the environment the declaration ran in
WrittenIn(f) ==
    {k \in DOMAIN objs :
        /\ objs[k].o = "class"
        /\ \E n \in DOMAIN objs[k].methods :
              objs[k].methods[n].closure = envs[f].enclosing}

\* C20: `super.method()` takes the method from the superclass of the class
\* whose declaration holds the calling method, whatever the class of the
\* instance, and binds it to the instance the caller runs on: on an instance
\* of C < B < A, B's test() runs A's method with `this` the C instance.
C20_SuperFromDeclaringClass ==
    /\ \A i \in Ev("super") :
          LET f == MethodFrame(trace[i].env)
          IN  /\ f # 0
              /\ trace[i].superclass.r = "hit"
              /\ trace[i].instance.r = "hit"
              /\ trace[i].instance.val = envs[f].values["this"]
              /\ WrittenIn(f) # {}
              /\ \A k \in WrittenIn(f) :
                    trace[i].superclass.val = ClassRef(objs[k].superclass)
    /\ \A i \in Ev("call") :
          trace[i].name = "test" =>
              /\ trace[i].res = "Ok"
              /\ trace[i].val = envs[trace[i].closure].values["this"]
              /\ \E j \in Ev("call") :
                    /\ j < i /\ trace[j].name = "method"
                    /\ \A k \in WrittenIn(trace[i].closure) :
                          envs[trace[j].closure].enclosing
                            = find_method(objs, objs[k].superclass,
                                          "method").method.closure
                    /\ trace[j].val = trace[i].val

\* how many of the first characters of a text are digits
LeadingDigits(text) ==
    CHOOSE n \in 0..Len(text) :
        /\ \A i \in 1..n : text[i] \in Digits
        /\ n = Len(text) \/ text[n + 1] \notin Digits

\* the text from its character after position n on
From(text, n) == SubSeq(text, n + 1, Len(text))

\* the text begins with a decimal literal: digits, a ".", digits
BeginsWithDecimal(text) ==
    /\ LeadingDigits(text) >= 1
    /\ Len(text) > LeadingDigits(text)
    /\ text[LeadingDigits(text) + 1] = "."
    /\ LeadingDigits(From(text, LeadingDigits(text) + 1)) >= 1

\* the length of that literal
DecimalLength(text) ==
    LeadingDigits(text) + 1 + LeadingDigits(From(text, LeadingDigits(text) + 1))

\* C21: a text that begins with a decimal literal (digits, a ".", digits;
\* whatever follows, and however many digits the fraction has) gives, as
\* its first token, one Number token whose lexeme is the whole literal and
\* whose value is the decimal the literal writes.
C21_DecimalIsOneToken ==
    (BeginsWithDecimal(scanner.source) /\ scanner.tokens # <<>>) =>
        scanner.tokens[1] =
            Token_new("Number",
                      SubSeq(scanner.source, 1, DecimalLength(scanner.source)),
                      1,
                      Literal("Number", 
                          [whole |-> DecimalOf(SubSeq(scanner.source, 1,
                                        LeadingDigits(scanner.source))),
                           fraction |->
                               SubSeq(scanner.source,
                                      LeadingDigits(scanner.source) + 2,
                                      DecimalLength(scanner.source))]))

\* C29: scan_tokens ends on every text: the scanner gets out of each of
\* its loops and returns the tokens up to Eof, or the errors.
C29_ScannerTerminates ==
    <>(/\ scan_pc = "done"
       /\ scanner.tokens # <<>>
       /\ Last(scanner.tokens).token_type = "Eof"
       /\ scan_tokens_result.k \in {"Ok", "Err"})

\* what the resolver decides for a text on its own: the side-table entries
\* a resolution of that text writes, by the number of the id
Own ==
    [of \in {s.name : s \in Sources} \cup DOMAIN Files |->
        LET text == IF of \in DOMAIN Files THEN Files[of].text
                    ELSE (CHOOSE s \in Sources : s.name = of).text
            ast == parse(text, of)
        IN  IF ast.ok
            THEN resolve_stmts(ast.ast, Resolver_new(EmptyMap)).rs.locals
            ELSE EmptyMap]

\* the resolver resolved the reference with this id to a local scope
ResolvedLocal(id) == id.n \in DOMAIN Own[id.of]

\* C22: an assignment to a name that the resolver did not resolve to a
\* local scope and that globals does not define ends with a runtime error
\* and binds no name anywhere.
C22_AssignmentNeverCreates ==
    \A i \in Ev("assign") :
        (~ResolvedLocal(trace[i].id) /\ ~trace[i].defined) =>
            trace[i].res = "Err" /\ ~trace[i].changed

\* the operators the parser accepts in a compound assignment to a variable
CompoundOps == {"Add", "Sub", "Mul", "Div"}

\* C23: a compound assignment of one of the four operators to a variable
\* that holds a number, with a number on the right (not zero for a
\* division), yields the value of `x op e` and leaves it stored in x.
C23_CompoundAssignStores ==
    \A i \in Ev("assign_op") :
        LET a == trace[i]
        IN  (/\ a.op \in CompoundOps
             /\ a.current.t = "Number" /\ a.right.t = "Number"
             /\ (a.op = "Div" => a.right.n # 0)) =>
                LET x_op_e == binary_op(a.op, a.current, a.right, <<>>).val
                IN  a.res = "Ok" /\ a.val = x_op_e /\ a.stored = x_op_e

\* an index a list of n elements has an element for
ValidIndex(idx, n) ==
    idx.t = "Number" /\ idx.d = 1 /\ 0 <= idx.n /\ idx.n < n

\* C24: a read or write of list[i] succeeds only when i is a whole number
\* with 0 <= i < length; with any other number the operation is a runtime
\* error and the list keeps its elements.
C24_IndexInBounds ==
    \A i \in Ev("index") :
        LET x == trace[i]
        IN  /\ x.res = "Ok" => ValidIndex(x.idx, Len(x.before))
            /\ (x.idx.t = "Number" /\ ~ValidIndex(x.idx, Len(x.before))) =>
                   x.res = "Err" /\ x.after = x.before

\* the steps the same `for` loop takes after step i
LaterSteps(i) ==
    {j \in Ev("for") : j > i /\ trace[j].loop = trace[i].loop}

NextStep(i) == CHOOSE j \in LaterSteps(i) : \A m \in LaterSteps(i) : j <= m

\* from the `continue` statement that ended the body at step i up to that
\* step, nothing runs: every event in between is a statement or a block
\* passing the signal on
SkipsRest(i) ==
    \E s \in Ev("stmt") :
        /\ s < i /\ trace[s].kind = "Continue"
        /\ \A m \in (s + 1)..(i - 1) :
              \/ trace[m].ev = "stmt" /\ trace[m].res = "Continue"
              \/ trace[m].ev = "block" /\ trace[m].returned[1] = "Continue"

Signals == {"Return", "Break", "Continue"}

C27_SessionsDoNotInterfere ==
    /\ \A i \in Ev("local") :
          /\ ResolvedLocal(trace[i].id)
          /\ trace[i].distance = Own[trace[i].id.of][trace[i].id.n]
    /\ \A i \in Ev("global") : ~ResolvedLocal(trace[i].id)

\* C28: the argument list of a call is evaluated once: no call evaluates
\* its arguments a second time, so every call of a user function follows
\* exactly one evaluation of its arguments.
C28_ArgumentsEvaluatedOnce ==
    \A i \in Ev("args") : trace[i].pass = 1

\* C30: `a + b` on two lists, the same list object or not, completes and
\* yields the elements a had followed by the elements b had, and b keeps
\* its elements unless it is the same object as a.
C30_ListConcatCompletes ==
    \A i \in Ev("concat") :
        LET x == trace[i]
        IN  /\ x.res = "Ok"
            /\ x.result = x.left \o x.right
            /\ ~x.same => x.right_after = x.right


====
